---- MODULE Spec2Model ----
(***************************************************************************)
(* State-machine model of the shadcn data-table factory: the table state   *)
(* kept by DataTableFactory (filters, search, sorting, pagination, row     *)
(* selection, row editing), the column controls, and the Excel export.     *)
(*                                                                         *)
(* JavaScript values are tagged records, strings are sequences of          *)
(* one-character tokens so that substring search and lower-casing are      *)
(* computed and not assumed.                                               *)
(***************************************************************************)
EXTENDS Integers, Sequences, FiniteSets, TLC

(***************************************************************************)
(* Bounds of the model                                                     *)
(***************************************************************************)
NumRows == 3
DefaultPageSize == 2

(***************************************************************************)
(* JavaScript values                                                       *)
(***************************************************************************)
Null == [t |-> "null"]
Undef == [t |-> "undefined"]
Str(s) == [t |-> "string", s |-> s]
Num(n) == [t |-> "number", n |-> n]
Bool(b) == [t |-> "boolean", b |-> b]
Arr(a) == [t |-> "array", a |-> a]

NoCall == [t |-> "none"]

\* the values JavaScript treats as false in `!value` and `value || x`
Falsy(v) ==
    \/ v.t \in {"null", "undefined"}
    \/ v.t = "string" /\ v.s = <<>>
    \/ v.t = "number" /\ v.n = 0
    \/ v.t = "boolean" /\ ~v.b

IsNullish(v) == v.t \in {"null", "undefined"}
IsEmptyStr(v) == v.t = "string" /\ v.s = <<>>

UpperChars == <<"A", "B", "C", "D", "E", "F", "G", "H", "I", "J", "K", "L", "M",
                "N", "O", "P", "Q", "R", "S", "T", "U", "V", "W", "X", "Y", "Z">>
LowerChars == <<"a", "b", "c", "d", "e", "f", "g", "h", "i", "j", "k", "l", "m",
                "n", "o", "p", "q", "r", "s", "t", "u", "v", "w", "x", "y", "z">>

LowerOf ==
    [c \in {UpperChars[i] : i \in 1..Len(UpperChars)} |->
        LowerChars[CHOOSE i \in 1..Len(UpperChars) : UpperChars[i] = c]]

LowerChar(c) == IF c \in DOMAIN LowerOf THEN LowerOf[c] ELSE c

\* String.prototype.toLowerCase
toLowerCase(s) == [i \in 1..Len(s) |-> LowerChar(s[i])]

\* String.prototype.includes
includes(hay, needle) ==
    \E i \in 0..(Len(hay) - Len(needle)) :
        SubSeq(hay, i + 1, i + Len(needle)) = needle

Digits == <<"0", "1", "2", "3", "4", "5", "6", "7", "8", "9">>

RECURSIVE NatToStr(_)
NatToStr(n) ==
    IF n < 10 THEN <<Digits[n + 1]>>
    ELSE NatToStr(n \div 10) \o <<Digits[(n % 10) + 1]>>

RECURSIVE JoinComma(_)
JoinComma(a) ==
    IF a = <<>> THEN <<>>
    ELSE IF Len(a) = 1 THEN a[1]
    ELSE a[1] \o <<",">> \o JoinComma(Tail(a))

\* String(value)
String(v) ==
    CASE v.t = "string" -> v.s
      [] v.t = "number" -> NatToStr(v.n)
      [] v.t = "boolean" -> IF v.b THEN <<"t", "r", "u", "e">>
                                   ELSE <<"f", "a", "l", "s", "e">>
      [] v.t = "null" -> <<"n", "u", "l", "l">>
      [] v.t = "undefined" -> <<"u", "n", "d", "e", "f", "i", "n", "e", "d">>
      [] v.t = "array" -> JoinComma(v.a)

(***************************************************************************)
(* utils.tsx: change detection                                             *)
(***************************************************************************)
DateObj(ms) == [t |-> "date", ms |-> ms]

\* the time value of an Invalid Date
NaN == -1

\* new Date(string).getTime() for the strings of the model: the two ISO
\* spellings of the same instant and one other instant parse, every other
\* string gives an Invalid Date
IsoDay1 == <<"2", "0", "2", "4", "-", "0", "1", "-", "0", "1">>
IsoDay1Z == IsoDay1 \o <<"T", "0", "0", ":", "0", "0", "Z">>
IsoDay2 == <<"2", "0", "2", "4", "-", "0", "1", "-", "0", "2">>

DateParse(s) ==
    IF s = IsoDay1 \/ s = IsoDay1Z THEN 19723
    ELSE IF s = IsoDay2 THEN 19724
    ELSE NaN

\* a !== b on numbers that may be NaN
NumberNotEqual(a, b) == a = NaN \/ b = NaN \/ a # b

\* a !== b (strict inequality; arrays are compared by reference, and the
\* model never passes the same array object on both sides)
StrictNotEqual(a, b) ==
    IF a.t # b.t THEN TRUE
    ELSE CASE a.t = "string" -> a.s # b.s
           [] a.t = "number" -> a.n # b.n
           [] a.t = "boolean" -> a.b # b.b
           [] a.t = "array" -> TRUE
           [] a.t = "date" -> TRUE
           [] OTHER -> FALSE

\* a change detection that takes the empty string for a value when the old
\* value is null or undefined
hasValueChanged_EmptyIsValue(oldValue, newValue) ==
    IF IsNullish(oldValue)
    THEN ~IsNullish(newValue)
    ELSE IF IsNullish(newValue) \/ IsEmptyStr(newValue)
    THEN ~IsNullish(oldValue) /\ ~IsEmptyStr(oldValue)
    ELSE IF oldValue.t = "array" /\ newValue.t = "array"
    THEN IF Len(oldValue.a) # Len(newValue.a) THEN TRUE
         ELSE \E i \in 1..Len(oldValue.a) : oldValue.a[i] # newValue.a[i]
    ELSE IF oldValue.t = "date" /\ newValue.t = "date"
    THEN NumberNotEqual(oldValue.ms, newValue.ms)
    ELSE IF /\ oldValue.t = "string" /\ newValue.t = "string"
            /\ DateParse(oldValue.s) # NaN /\ DateParse(newValue.s) # NaN
    THEN DateParse(oldValue.s) # DateParse(newValue.s)
    ELSE StrictNotEqual(oldValue, newValue)

\* a change detection that compares two strings as strings, also when both
\* parse as dates
hasValueChanged_NoDateParse(oldValue, newValue) ==
    IF IsNullish(oldValue)
    THEN ~IsNullish(newValue) /\ ~IsEmptyStr(newValue)
    ELSE IF IsNullish(newValue) \/ IsEmptyStr(newValue)
    THEN ~IsNullish(oldValue) /\ ~IsEmptyStr(oldValue)
    ELSE IF oldValue.t = "array" /\ newValue.t = "array"
    THEN IF Len(oldValue.a) # Len(newValue.a) THEN TRUE
         ELSE \E i \in 1..Len(oldValue.a) : oldValue.a[i] # newValue.a[i]
    ELSE IF oldValue.t = "date" /\ newValue.t = "date"
    THEN NumberNotEqual(oldValue.ms, newValue.ms)
    ELSE StrictNotEqual(oldValue, newValue)

hasValueChanged(oldValue, newValue) ==
    IF IsNullish(oldValue)
    THEN ~IsNullish(newValue) /\ ~IsEmptyStr(newValue)
    ELSE IF IsNullish(newValue) \/ IsEmptyStr(newValue)
    THEN ~IsNullish(oldValue) /\ ~IsEmptyStr(oldValue)
    ELSE IF oldValue.t = "array" /\ newValue.t = "array"
    THEN IF Len(oldValue.a) # Len(newValue.a) THEN TRUE
         ELSE \E i \in 1..Len(oldValue.a) : oldValue.a[i] # newValue.a[i]
    ELSE IF oldValue.t = "date" /\ newValue.t = "date"
    THEN NumberNotEqual(oldValue.ms, newValue.ms)
    ELSE IF /\ oldValue.t = "string" /\ newValue.t = "string"
            /\ DateParse(oldValue.s) # NaN /\ DateParse(newValue.s) # NaN
    THEN DateParse(oldValue.s) # DateParse(newValue.s)
    ELSE StrictNotEqual(oldValue, newValue)

(***************************************************************************)
(* The table's props: the column shape and the records                     *)
(***************************************************************************)
\* Object.keys(shape) in declaration order; "legacy" has a falsy config.  The
\* "id" config of `shape` below is passed only by a table that shows its
\* identity field as a column (IdShapeKeys).
ShapeKeys == <<"name", "active", "role", "skills", "legacy">>

shape ==
    [id |-> [present |-> TRUE, type |-> "text", label |-> "ID",
             sortable |-> FALSE, filterable |-> FALSE, searchable |-> FALSE,
             editable |-> TRUE],
     name |-> [present |-> TRUE, type |-> "text", label |-> "Name",
               sortable |-> TRUE, filterable |-> TRUE, searchable |-> TRUE,
               editable |-> TRUE],
     active |-> [present |-> TRUE, type |-> "boolean", label |-> "Active",
                 sortable |-> TRUE, filterable |-> TRUE, searchable |-> TRUE,
                 editable |-> FALSE],
     role |-> [present |-> TRUE, type |-> "select", label |-> "Role",
               sortable |-> FALSE, filterable |-> TRUE, searchable |-> FALSE,
               editable |-> FALSE],
     skills |-> [present |-> TRUE, type |-> "multi-select", label |-> "Skills",
                 sortable |-> FALSE, filterable |-> TRUE, searchable |-> TRUE,
                 editable |-> FALSE],
     legacy |-> [present |-> FALSE, type |-> "text", label |-> "Legacy",
                 sortable |-> TRUE, filterable |-> TRUE, searchable |-> TRUE,
                 editable |-> TRUE]]

\* the table-wide feature switches passed by the example page
sortable == TRUE
filterable == TRUE
searchable == TRUE

Range(s) == {s[i] : i \in 1..Len(s)}

getCurrentColumnOrder ==
    LET truthy(key) == shape[key].present IN SelectSeq(ShapeKeys, truthy)

availableColumns == getCurrentColumnOrder

RowIds == 1..NumRows

NameAl == <<"A", "l">>
NameBo == <<"B", "o">>
RoleDev == <<"d", "e", "v">>
RoleOps == <<"o", "p", "s">>
React == <<"R", "e", "a", "c", "t">>
Vue == <<"V", "u", "e">>
Angular == <<"A", "n", "g", "u", "l", "a", "r">>

\* the skills of record i: two skills, one skill, a value that is not an
\* array, then no skill
SkillsOf(i) ==
    CASE i % 4 = 1 -> Arr(<<React, Vue>>)
      [] i % 4 = 2 -> Arr(<<Angular>>)
      [] i % 4 = 3 -> Str(React)
      [] OTHER -> Arr(<<>>)

\* the records the owning page passes at mount
InitialData ==
    [i \in RowIds |->
        [id |-> i,
         name |-> Str(IF i % 2 = 1 THEN NameBo ELSE NameAl),
         active |-> Bool(i % 3 # 0),
         role |-> Str(IF i <= 1 THEN RoleDev ELSE RoleOps),
         skills |-> SkillsOf(i)]]

\* what the user can type in the text editor of the name column
NameInputs == {NameAl, NameBo}


(***************************************************************************)
(* The row models of the table: filtered, sorted, paginated                *)
(***************************************************************************)
FilterAll == <<"a", "l", "l">>
FilterTrue == <<"t", "r", "u", "e">>
FilterFalse == <<"f", "a", "l", "s", "e">>

\* a multi-select filter that asks for every selected value, not for some
columnFilterFn_Every(row, id, value) ==
    LET config == shape[id]
        cellValue == row[id]
    IN  IF ~config.present \/ ~filterable \/ ~config.filterable THEN TRUE
        ELSE IF Falsy(value) \/ value = Str(<<"a", "l", "l">>) THEN TRUE
        ELSE CASE config.type = "boolean" ->
                    value.t = "string" /\ String(cellValue) = value.s
               [] config.type = "select" -> cellValue = value
               [] config.type = "multi-select" ->
                    IF value.t = "array" /\ Len(value.a) > 0
                    THEN LET cellArray == IF cellValue.t = "array"
                                          THEN cellValue.a ELSE <<>>
                         IN  \A i \in 1..Len(value.a) :
                                \E j \in 1..Len(cellArray) :
                                    cellArray[j] = value.a[i]
                    ELSE TRUE
               [] OTHER ->
                    includes(toLowerCase(String(cellValue)),
                             toLowerCase(String(value)))

\* a column filter without the "all" sentinel: "all" is a filter text like
\* any other
columnFilterFn_AllIsText(row, id, value) ==
    LET config == shape[id]
        cellValue == row[id]
    IN  IF ~config.present \/ ~filterable \/ ~config.filterable THEN TRUE
        ELSE IF Falsy(value) THEN TRUE
        ELSE CASE config.type = "boolean" ->
                    value.t = "string" /\ String(cellValue) = value.s
               [] config.type = "select" -> cellValue = value
               [] config.type = "multi-select" ->
                    IF value.t = "array" /\ Len(value.a) > 0
                    THEN LET cellArray == IF cellValue.t = "array"
                                          THEN cellValue.a ELSE <<>>
                         IN  \E i \in 1..Len(value.a) :
                                value.a[i] \in Range(cellArray)
                    ELSE TRUE
               [] OTHER ->
                    includes(toLowerCase(String(cellValue)),
                             toLowerCase(String(value)))

\* columnFilterFn(row, id, value)
columnFilterFn(row, id, value) ==
    LET config == shape[id]
        cellValue == row[id]
    IN  IF ~config.present THEN TRUE
        ELSE IF ~filterable THEN TRUE
        ELSE IF ~config.filterable THEN TRUE
        ELSE IF Falsy(value) \/ value = Str(FilterAll) THEN TRUE
        ELSE CASE config.type = "boolean" ->
                    value.t = "string" /\ String(cellValue) = value.s
               [] config.type = "select" -> cellValue = value
               [] config.type = "multi-select" ->
                    IF value.t = "array" /\ Len(value.a) > 0
                    THEN LET cellArray == IF cellValue.t = "array"
                                          THEN cellValue.a ELSE <<>>
                         IN  \E i \in 1..Len(value.a) :
                                value.a[i] \in Range(cellArray)
                    ELSE TRUE
               [] OTHER ->
                    includes(toLowerCase(String(cellValue)),
                             toLowerCase(String(value)))

\* globalFilterFn(row, columnId, filterValue)
globalFilterFn(row, columnId, filterValue) ==
    IF ~searchable THEN TRUE
    ELSE IF ~shape[columnId].searchable THEN TRUE
    ELSE includes(toLowerCase(String(row[columnId])), toLowerCase(filterValue))

\* the data columns of the table: columnOrder.forEach, skipping falsy configs
DataColumns(order) ==
    LET hasConfig(key) == key \in DOMAIN shape /\ shape[key].present
    IN  SelectSeq(order, hasConfig)

\* the columns the global filter looks at: those whose value in the first
\* record is a string or a number
GlobalFilterColumns(d, order) ==
    {key \in Range(DataColumns(order)) :
        Len(d) > 0 /\ d[1][key].t \in {"string", "number"}}

\* a column filter entry is kept in columnFilters unless its value is
\* undefined or the empty string
FilterActive(value) == ~(value.t = "undefined" \/ IsEmptyStr(value))

RowPasses(row, d, order, filters, query) ==
    /\ \A key \in Range(DataColumns(order)) :
          FilterActive(filters[key]) => columnFilterFn(row, key, filters[key])
    /\ query # <<>> =>
          \E key \in GlobalFilterColumns(d, order) :
              globalFilterFn(row, key, query)

\* table.getFilteredRowModel().rows, as indexes into data, in data order
FilteredRows(d, order, filters, query) ==
    LET keep(i) == RowPasses(d[i], d, order, filters, query)
    IN  SelectSeq([i \in 1..Len(d) |-> i], keep)

CharOrder == <<",", "-">> \o Digits \o <<":">> \o UpperChars \o LowerChars

RankOf ==
    [c \in {CharOrder[i] : i \in 1..Len(CharOrder)} |->
        CHOOSE i \in 1..Len(CharOrder) : CharOrder[i] = c]

CharRank(c) == RankOf[c]

\* a < b on strings
RECURSIVE StrLess(_, _)
StrLess(a, b) ==
    IF b = <<>> THEN FALSE
    ELSE IF a = <<>> THEN TRUE
    ELSE IF CharRank(Head(a)) # CharRank(Head(b))
    THEN CharRank(Head(a)) < CharRank(Head(b))
    ELSE StrLess(Tail(a), Tail(b))

\* a === b ? 0 : a > b ? 1 : -1
compareBasic(a, b) ==
    IF a.t = "string" /\ b.t = "string"
    THEN IF a.s = b.s THEN 0 ELSE IF StrLess(b.s, a.s) THEN 1 ELSE -1
    ELSE IF a.t = "boolean" /\ b.t = "boolean"
    THEN IF a.b = b.b THEN 0 ELSE IF a.b THEN 1 ELSE -1
    ELSE IF a.t = "number" /\ b.t = "number"
    THEN IF a.n = b.n THEN 0 ELSE IF a.n > b.n THEN 1 ELSE -1
    ELSE -1

\* the sorting function chosen for a column: text for strings (compared
\* lower-cased), basic otherwise
sortingFn(rowA, rowB, id) ==
    IF rowA[id].t = "string" /\ rowB[id].t = "string"
    THEN compareBasic(Str(toLowerCase(rowA[id].s)), Str(toLowerCase(rowB[id].s)))
    ELSE compareBasic(rowA[id], rowB[id])

\* the comparator of getSortedRowModel: the first sort entry that tells the
\* rows apart decides, the index in data breaks ties
RECURSIVE CompareRows(_, _, _, _)
CompareRows(d, i, j, sort) ==
    IF sort = <<>> THEN i - j
    ELSE LET sortInt == sortingFn(d[i], d[j], Head(sort).id)
         IN  IF sortInt # 0
             THEN IF Head(sort).desc THEN 0 - sortInt ELSE sortInt
             ELSE CompareRows(d, i, j, Tail(sort))

RECURSIVE InsertSorted(_, _, _, _)
InsertSorted(d, sorted, i, sort) ==
    IF sorted = <<>> THEN <<i>>
    ELSE IF CompareRows(d, i, Head(sorted), sort) < 0 THEN <<i>> \o sorted
    ELSE <<Head(sorted)>> \o InsertSorted(d, Tail(sorted), i, sort)

RECURSIVE SortRows(_, _, _)
SortRows(d, rows, sort) ==
    IF rows = <<>> THEN <<>>
    ELSE InsertSorted(d, SortRows(d, Tail(rows), sort), Head(rows), sort)

\* table.getSortedRowModel().rows, as indexes into data
SortedRows(d, order, filters, query, sort) ==
    LET canSort(e) == e.id \in Range(DataColumns(order))
    IN  SortRows(d, FilteredRows(d, order, filters, query),
                 SelectSeq(sort, canSort))

Min(a, b) == IF a < b THEN a ELSE b
Max(a, b) == IF a > b THEN a ELSE b

\* rows.slice(pageStart, pageEnd) of getPaginationRowModel
PageSlice(rows, pag) ==
    LET pageStart == pag.pageSize * pag.pageIndex
        pageEnd == Min(pageStart + pag.pageSize, Len(rows))
    IN  IF pageStart >= Len(rows) THEN <<>>
        ELSE SubSeq(rows, pageStart + 1, pageEnd)

\* table.getPageCount()
getPageCount(rowCount, pageSize) == (rowCount + pageSize - 1) \div pageSize

\* table.getRowModel().rows: the page when pagination is enabled, the whole
\* sorted row set otherwise
RowModelRows(d, order, filters, query, sort, pag, paged) ==
    IF paged THEN PageSlice(SortedRows(d, order, filters, query, sort), pag)
    ELSE SortedRows(d, order, filters, query, sort)

\* the identities of a list of rows (getRowId: row[rowId])
IdsOf(d, rows) == {d[rows[k]].id : k \in 1..Len(rows)}


(***************************************************************************)
(* State                                                                   *)
(***************************************************************************)
VARIABLES
    data,                   \* the records held by the owning page
    mountData,              \* `data` as captured by handleSelectionChange
    columnFilters,          \* column key -> filter value (Undef: no entry)
    globalFilter,           \* the text of the search box
    debouncedGlobalFilter,  \* the query applied to the table
    pendingSearch,          \* the queries of the debounce timers not yet fired
    sorting,                \* sequence of [id, desc]
    paginationState,        \* [pageIndex, pageSize]
    paginationEnabled,      \* pagination.enabled, fixed at mount
    rowSelection,           \* the keys of the RowSelectionState
    editingRowId,           \* 0 for null
    editedRow,              \* row id -> draft of its mounted RowEditor
    draftTouched,           \* handleFieldChange ran on the mounted draft
    columnVisibility,       \* column key -> "unset" | "shown" | "hidden"
    renderedVisibility,     \* columnVisibility as last rendered into ColumnControls
    columnOrderState,       \* the stored column order
    shapeFieldKeys,         \* the truthy keys of the shape passed, in declaration order
    togglesSinceRender,     \* toggleColumn calls made on the rendered props (0, 1, 2 = more)
    lastOp,                 \* the handler that ran last
    pruned,                 \* identities dropped from rowSelection by the last handler
    saved,                  \* the onRowSave call of the last handler
    notified,               \* the onSelectionChange call of the last handler
    exported                \* the outcome of exportToExcel in the last handler

vars == <<data, mountData, columnFilters, globalFilter, debouncedGlobalFilter,
          pendingSearch,
          sorting, paginationState, paginationEnabled, rowSelection,
          editingRowId, editedRow, draftTouched, columnVisibility,
          renderedVisibility, columnOrderState, shapeFieldKeys,
          togglesSinceRender, lastOp,
          pruned, saved, notified, exported>>

tableVars == <<data, columnFilters, globalFilter, debouncedGlobalFilter,
               sorting, paginationState, rowSelection, editingRowId,
               editedRow, draftTouched>>

columnVars == <<columnVisibility, renderedVisibility, columnOrderState,
                togglesSinceRender>>

NoDraft == [t |-> "none"]

(***************************************************************************)
(* Column order                                                            *)
(***************************************************************************)
\* a merge that keeps the stored keys the shape no longer has
mergeColumnOrder_KeepAbsent(storedOrder, currentColumns) ==
    LET isNew(col) == col \notin Range(storedOrder)
    IN  storedOrder \o SelectSeq(currentColumns, isNew)

\* a merge that puts the new keys in front of the stored ones
mergeColumnOrder_NewFirst(storedOrder, currentColumns) ==
    LET stillThere(col) == col \in Range(currentColumns)
        isNew(col) == col \notin Range(storedOrder)
    IN  SelectSeq(currentColumns, isNew) \o SelectSeq(storedOrder, stillThere)

\* a merge that appends every key of the shape that is not first in the result
mergeColumnOrder_AppendTail(storedOrder, currentColumns) ==
    LET stillThere(col) == col \in Range(currentColumns)
        validStoredColumns == SelectSeq(storedOrder, stillThere)
        isNew(col) == validStoredColumns = <<>> \/ col # validStoredColumns[1]
    IN  validStoredColumns \o SelectSeq(currentColumns, isNew)

\* a merge that appends every key of the shape, in the stored order or not
mergeColumnOrder_AppendAll(storedOrder, currentColumns) ==
    LET stillThere(col) == col \in Range(currentColumns)
    IN  SelectSeq(storedOrder, stillThere) \o currentColumns

mergeColumnOrder(storedOrder, currentColumns) ==
    LET stillThere(col) == col \in Range(currentColumns)
        isNew(col) == col \notin Range(storedOrder)
    IN  SelectSeq(storedOrder, stillThere) \o SelectSeq(currentColumns, isNew)

\* mergedColumnOrder, the order every consumer reads
columnOrder == mergeColumnOrder(columnOrderState, shapeFieldKeys)

(***************************************************************************)
(* Selection                                                               *)
(***************************************************************************)
\* an updater that returns prev whatever is visible
PruneSelection_KeepAll(prev, visible) == prev

\* an updater that selects what is visible
PruneSelection_AddVisible(prev, visible) == visible

\* the updater of visibleRowIds: keep the keys that are visible
PruneSelection(prev, visible) == {key \in prev : key \in visible}

\* handleSelectionChange: data.filter((row) => row[rowId] in newSelection),
\* on the data of the render that created the callback
handleSelectionChange(closureData, newSelection) ==
    LET isIn(row) == row.id \in newSelection
    IN  [t |-> "call", rows |-> SelectSeq(closureData, isIn)]

RowById(d, id) == d[CHOOSE i \in 1..Len(d) : d[i].id = id]

\* a render that shows every row as an editor while some row is being edited
IsEditing_AnyRow(rowId, editing) == editing # 0

\* a RowEditor is rendered for the page row whose id is editingRowId
IsEditing(rowId, editing) == editing = rowId

\* the visible row ids taken from the whole filtered and sorted row set, not
\* from the page
RenderedIds_AllPages(d, filters, query, sort, pag) ==
    IdsOf(d, SortedRows(d, columnOrder, filters, query, sort))

\* the rows of a render, as identities
RenderedIds(d, filters, query, sort, pag) ==
    IdsOf(d, RowModelRows(d, columnOrder, filters, query, sort, pag,
                          paginationEnabled))

(***************************************************************************)
(* One handler followed by the renders it causes.  When the row models are  *)
(* recomputed (data, filters, query or sorting changed) the table first    *)
(* renders with the old page index, then resets the page index to 0 and    *)
(* renders again; every render prunes the selection to the rows it shows,  *)
(* unmounts the RowEditor of a row it does not show, and a commit whose    *)
(* rowSelection is a new object runs the selection effect.                 *)
(***************************************************************************)
Settle(d, filters, query, sort, pag, sel, selTouched, editing, drafts, touched, recomputed) ==
    LET ids1 == RenderedIds(d, filters, query, sort, pag)
        sel1 == PruneSelection(sel, ids1)
        reset == recomputed /\ paginationEnabled /\ pag.pageIndex # 0
        pag2 == IF reset THEN [pag EXCEPT !.pageIndex = 0] ELSE pag
        ids2 == RenderedIds(d, filters, query, sort, pag2)
        sel2 == PruneSelection(sel1, ids2)
        stays(r) == /\ IsEditing(r, editing) /\ r \in ids1 /\ r \in ids2
                    /\ drafts[r] # NoDraft
        mounts(r) == IsEditing(r, editing) /\ r \in ids2
    IN  /\ data' = d
        /\ columnFilters' = filters
        /\ debouncedGlobalFilter' = query
        /\ sorting' = sort
        /\ paginationState' = pag2
        /\ rowSelection' = sel2
        /\ pruned' = sel \ sel2
        /\ editingRowId' = editing
        /\ editedRow' = [r \in RowIds |->
                            IF stays(r) THEN drafts[r]
                            ELSE IF mounts(r) THEN RowById(d, r)
                            ELSE NoDraft]
        /\ draftTouched' = (touched /\ \E r \in RowIds : stays(r))
        /\ notified' = IF selTouched \/ sel2 # sel
                       THEN handleSelectionChange(mountData, sel2)
                       ELSE NoCall


(***************************************************************************)
(* Initial state: the first render                                         *)
(***************************************************************************)
initialPaginationState == [pageIndex |-> 0, pageSize |-> DefaultPageSize]

\* allPageSizeOptions: the default and one larger option
allPageSizeOptions == {DefaultPageSize, DefaultPageSize + 1}

Init ==
    /\ data = InitialData
    /\ mountData = InitialData
    /\ columnFilters = [key \in Range(ShapeKeys) |-> Undef]
    /\ globalFilter = <<>>
    /\ debouncedGlobalFilter = <<>>
    /\ pendingSearch = <<>>
    /\ sorting = <<>>
    /\ paginationState = initialPaginationState
    /\ paginationEnabled \in BOOLEAN
    /\ rowSelection = {}
    /\ editingRowId = 0
    /\ editedRow = [r \in RowIds |-> NoDraft]
    /\ draftTouched = FALSE
    /\ columnVisibility = [key \in Range(ShapeKeys) |-> "unset"]
    /\ renderedVisibility = [key \in Range(ShapeKeys) |-> "unset"]
    /\ columnOrderState = getCurrentColumnOrder
    /\ shapeFieldKeys = getCurrentColumnOrder
    /\ togglesSinceRender = 0
    /\ lastOp = "mount"
    /\ pruned = {}
    /\ saved = NoCall
    /\ notified = handleSelectionChange(InitialData, {})
    /\ exported = NoCall

\* the rows of the current render
CurrentRows ==
    RowModelRows(data, columnOrder, columnFilters, debouncedGlobalFilter,
                 sorting, paginationState, paginationEnabled)

CurrentIds == IdsOf(data, CurrentRows)

CurrentSorted ==
    SortedRows(data, columnOrder, columnFilters, debouncedGlobalFilter, sorting)

CurrentFilteredIds ==
    IdsOf(data, FilteredRows(data, columnOrder, columnFilters,
                             debouncedGlobalFilter))

(***************************************************************************)
(* Filters and search                                                      *)
(***************************************************************************)
\* the filter selects offered in the header: "all", or one of the values
FilterChoices(key) ==
    IF shape[key].type = "boolean" THEN {FilterAll, FilterTrue, FilterFalse}
    ELSE {FilterAll, RoleDev, RoleOps}

\* column.setFilterValue: the entry is dropped for undefined and ""
setFilterValue(filters, key, value) ==
    [filters EXCEPT ![key] = IF FilterActive(value) THEN value ELSE Undef]

\* ColumnFilter (boolean, select): onValueChange
SetColumnFilter(key, choice) ==
    /\ filterable /\ shape[key].present /\ shape[key].filterable
    /\ shape[key].type \in {"boolean", "select"}
    /\ choice # (IF columnFilters[key] = Undef THEN FilterAll
                 ELSE columnFilters[key].s)
    /\ Settle(data,
              setFilterValue(columnFilters, key,
                             Str(IF choice = FilterAll THEN <<>> ELSE choice)),
              debouncedGlobalFilter, sorting, paginationState, rowSelection,
              FALSE, editingRowId, editedRow, draftTouched, TRUE)
    /\ lastOp' = "filter"
    /\ saved' = NoCall /\ exported' = NoCall
    /\ UNCHANGED <<globalFilter, mountData, pendingSearch, paginationEnabled, shapeFieldKeys, columnVars>>

\* what the user can have typed in the filter input of a text column
TextFilterInputs == {<<>>, <<"a", "l">>, FilterAll, <<"B", "O">>}

\* ColumnFilter (text): the effect that applies the debounced input
ApplyTextFilter(key, text) ==
    /\ filterable /\ shape[key].present /\ shape[key].filterable
    /\ shape[key].type = "text"
    /\ text # (IF columnFilters[key] = Undef THEN <<>>
               ELSE columnFilters[key].s)
    /\ Settle(data,
              setFilterValue(columnFilters, key,
                             IF text = <<>> THEN Undef ELSE Str(text)),
              debouncedGlobalFilter, sorting, paginationState, rowSelection,
              FALSE, editingRowId, editedRow, draftTouched, TRUE)
    /\ lastOp' = "filter"
    /\ saved' = NoCall /\ exported' = NoCall
    /\ UNCHANGED <<globalFilter, mountData, pendingSearch, paginationEnabled, shapeFieldKeys, columnVars>>

\* the options the user can have selected in the multi-select filter
SkillSelections == {<<>>, <<React>>, <<Angular>>, <<Vue, Angular>>}

\* ColumnFilter (multi-select): onChange
SetMultiSelectFilter(key, selected) ==
    /\ filterable /\ shape[key].present /\ shape[key].filterable
    /\ shape[key].type = "multi-select"
    /\ selected # (IF columnFilters[key].t = "array" THEN columnFilters[key].a
                   ELSE <<>>)
    /\ Settle(data,
              setFilterValue(columnFilters, key,
                             IF Len(selected) > 0 THEN Arr(selected)
                             ELSE Str(<<>>)),
              debouncedGlobalFilter, sorting, paginationState, rowSelection,
              FALSE, editingRowId, editedRow, draftTouched, TRUE)
    /\ lastOp' = "filter"
    /\ saved' = NoCall /\ exported' = NoCall
    /\ UNCHANGED <<globalFilter, mountData, pendingSearch, paginationEnabled, shapeFieldKeys, columnVars>>

\* useDebouncedValue: a new value clears the pending timer and starts one
restartDebounce(pending, value) == <<value>>

\* a keystroke that starts a timer without clearing the pending one
TypeSearch_Stacks(text) ==
    /\ searchable
    /\ text # globalFilter
    /\ globalFilter' = text
    /\ pendingSearch' = Append(pendingSearch, text)
    /\ Settle(data, columnFilters, debouncedGlobalFilter, sorting,
              paginationState, rowSelection, FALSE, editingRowId, editedRow,
              draftTouched, FALSE)
    /\ lastOp' = "type"
    /\ saved' = NoCall /\ exported' = NoCall
    /\ UNCHANGED <<mountData, paginationEnabled, shapeFieldKeys, columnVars>>

\* the search box: onChange sets globalFilter and restarts the debounce
TypeSearch(text) ==
    /\ searchable
    /\ text # globalFilter
    /\ globalFilter' = text
    /\ pendingSearch' = restartDebounce(pendingSearch, text)
    /\ Settle(data, columnFilters, debouncedGlobalFilter, sorting,
              paginationState, rowSelection, FALSE, editingRowId, editedRow,
              draftTouched, FALSE)
    /\ lastOp' = "type"
    /\ saved' = NoCall /\ exported' = NoCall
    /\ UNCHANGED <<mountData, paginationEnabled, shapeFieldKeys, columnVars>>

\* useDebouncedValue: the delay of the oldest pending timer elapsed; its
\* query becomes the debounced value (a query equal to the debounced value
\* causes no render)
DebounceElapsed ==
    /\ pendingSearch # <<>>
    /\ pendingSearch' = Tail(pendingSearch)
    /\ Settle(data, columnFilters, Head(pendingSearch), sorting,
              paginationState, rowSelection, FALSE, editingRowId, editedRow,
              draftTouched, Head(pendingSearch) # debouncedGlobalFilter)
    /\ lastOp' = "search"
    /\ saved' = NoCall /\ exported' = NoCall
    /\ UNCHANGED <<globalFilter, mountData, paginationEnabled, shapeFieldKeys, columnVars>>

(***************************************************************************)
(* Sorting                                                                 *)
(***************************************************************************)
SortIndex(sort, key) ==
    IF \E i \in 1..Len(sort) : sort[i].id = key
    THEN CHOOSE i \in 1..Len(sort) : sort[i].id = key
    ELSE 0

\* column.getIsSorted()
getIsSorted(sort, key) ==
    IF SortIndex(sort, key) = 0 THEN "false"
    ELSE IF sort[SortIndex(sort, key)].desc THEN "desc" ELSE "asc"

\* a toggleSorting that adds an entry on every multi-sort click
toggleSorting_AlwaysAdd(old, key, desc, multi) ==
    IF Len(old) > 0 /\ multi
    THEN Append(old, [id |-> key, desc |-> desc])
    ELSE <<[id |-> key, desc |-> desc]>>

\* column.toggleSorting(desc, multi) with an explicit desc
toggleSorting(old, key, desc, multi) ==
    LET existingIndex == SortIndex(old, key)
        sortAction ==
            IF Len(old) > 0 /\ multi
            THEN IF existingIndex # 0 THEN "toggle" ELSE "add"
            ELSE IF Len(old) > 0 /\ existingIndex # Len(old) THEN "replace"
            ELSE IF existingIndex # 0 THEN "toggle"
            ELSE "replace"
    IN  CASE sortAction = "add" -> Append(old, [id |-> key, desc |-> desc])
          [] sortAction = "toggle" ->
                [i \in 1..Len(old) |->
                    IF old[i].id = key THEN [id |-> key, desc |-> desc]
                    ELSE old[i]]
          [] OTHER -> <<[id |-> key, desc |-> desc]>>

\* the header button of a sortable column: onClick
HeaderClick(key, isMultiSort) ==
    /\ sortable /\ shape[key].present /\ shape[key].sortable
    /\ key \in Range(columnOrder)
    /\ Settle(data, columnFilters, debouncedGlobalFilter,
              toggleSorting(sorting, key, getIsSorted(sorting, key) = "asc",
                            isMultiSort),
              paginationState, rowSelection, FALSE, editingRowId, editedRow,
              draftTouched, TRUE)
    /\ lastOp' = "sort"
    /\ saved' = NoCall /\ exported' = NoCall
    /\ UNCHANGED <<globalFilter, mountData, pendingSearch, paginationEnabled, shapeFieldKeys, columnVars>>

clearSorting ==
    /\ sortable /\ sorting # <<>>
    /\ Settle(data, columnFilters, debouncedGlobalFilter, <<>>,
              paginationState, rowSelection, FALSE, editingRowId, editedRow,
              draftTouched, TRUE)
    /\ lastOp' = "sort"
    /\ saved' = NoCall /\ exported' = NoCall
    /\ UNCHANGED <<globalFilter, mountData, pendingSearch, paginationEnabled, shapeFieldKeys, columnVars>>

removeSortColumn(columnId) ==
    /\ sortable /\ columnId \in {sorting[i].id : i \in 1..Len(sorting)}
    /\ LET other(e) == e.id # columnId
       IN  Settle(data, columnFilters, debouncedGlobalFilter,
                  SelectSeq(sorting, other), paginationState, rowSelection,
                  FALSE, editingRowId, editedRow, draftTouched, TRUE)
    /\ lastOp' = "sort"
    /\ saved' = NoCall /\ exported' = NoCall
    /\ UNCHANGED <<globalFilter, mountData, pendingSearch, paginationEnabled, shapeFieldKeys, columnVars>>

(***************************************************************************)
(* Pagination                                                              *)
(***************************************************************************)
PageCount == getPageCount(Len(CurrentSorted), paginationState.pageSize)

\* table.getCanPreviousPage(), table.getCanNextPage()
getCanPreviousPage == paginationState.pageIndex > 0
getCanNextPage == PageCount # 0 /\ paginationState.pageIndex < PageCount - 1

\* the four page buttons: first, previous, next, last
PageTargets ==
    (IF getCanPreviousPage THEN {0, paginationState.pageIndex - 1} ELSE {})
    \cup (IF getCanNextPage
          THEN {paginationState.pageIndex + 1, PageCount - 1} ELSE {})

\* table.setPageIndex(n) with no pageCount option: only clamped at 0
setPageIndex(old, pageIndex) == [old EXCEPT !.pageIndex = Max(0, pageIndex)]

SetPageIndex(pageIndex) ==
    /\ paginationEnabled
    /\ pageIndex \in PageTargets
    /\ Settle(data, columnFilters, debouncedGlobalFilter, sorting,
              setPageIndex(paginationState, pageIndex), rowSelection,
              FALSE, editingRowId, editedRow, draftTouched, FALSE)
    /\ lastOp' = "page"
    /\ saved' = NoCall /\ exported' = NoCall
    /\ UNCHANGED <<globalFilter, mountData, pendingSearch, paginationEnabled, shapeFieldKeys, columnVars>>

\* table.setPageSize(n): the first row of the page stays on the page
setPageSize(old, pageSize) ==
    LET size == Max(1, pageSize)
        topRowIndex == old.pageSize * old.pageIndex
    IN  [pageIndex |-> topRowIndex \div size, pageSize |-> size]

SetPageSize(pageSize) ==
    /\ paginationEnabled
    /\ pageSize \in allPageSizeOptions
    /\ pageSize # paginationState.pageSize
    /\ Settle(data, columnFilters, debouncedGlobalFilter, sorting,
              setPageSize(paginationState, pageSize), rowSelection,
              FALSE, editingRowId, editedRow, draftTouched, FALSE)
    /\ lastOp' = "pageSize"
    /\ saved' = NoCall /\ exported' = NoCall
    /\ UNCHANGED <<globalFilter, mountData, pendingSearch, paginationEnabled, shapeFieldKeys, columnVars>>


(***************************************************************************)
(* Row selection                                                           *)
(***************************************************************************)
\* row.toggleSelected()
toggleSelected(old, rowId) ==
    IF rowId \in old THEN old \ {rowId} ELSE old \cup {rowId}

\* SelectionCell of a DataTableRow: onToggle
ToggleRowSelected(rowId) ==
    /\ rowId \in CurrentIds
    /\ ~IsEditing(rowId, editingRowId)
    /\ Settle(data, columnFilters, debouncedGlobalFilter, sorting,
              paginationState, toggleSelected(rowSelection, rowId), TRUE,
              editingRowId, editedRow, draftTouched, FALSE)
    /\ lastOp' = "select"
    /\ saved' = NoCall /\ exported' = NoCall
    /\ UNCHANGED <<globalFilter, mountData, pendingSearch, paginationEnabled, shapeFieldKeys, columnVars>>

\* table.toggleAllPageRowsSelected(value) from the header checkbox
toggleAllPageRowsSelected(old, pageIds, value) ==
    IF value THEN old \cup pageIds ELSE old \ pageIds

ToggleAllPageRows ==
    /\ CurrentIds # {}
    /\ Settle(data, columnFilters, debouncedGlobalFilter, sorting,
              paginationState,
              toggleAllPageRowsSelected(rowSelection, CurrentIds,
                                        ~(CurrentIds \subseteq rowSelection)),
              TRUE, editingRowId, editedRow, draftTouched, FALSE)
    /\ lastOp' = "selectAll"
    /\ saved' = NoCall /\ exported' = NoCall
    /\ UNCHANGED <<globalFilter, mountData, pendingSearch, paginationEnabled, shapeFieldKeys, columnVars>>

(***************************************************************************)
(* Row editing                                                             *)
(***************************************************************************)
\* the record keys, Object.keys(editedRow)
RecordKeys == {"id", "name", "active", "role", "skills"}

\* the id of the row whose RowEditor is mounted, 0 when none is
MountedEditor ==
    IF \E r \in RowIds : editedRow[r] # NoDraft
    THEN CHOOSE r \in RowIds : editedRow[r] # NoDraft
    ELSE 0

\* ActionsCell of a DataTableRow: Edit -> createEditHandler(rowId)
RequestEdit(rowId) ==
    /\ rowId \in CurrentIds
    /\ ~IsEditing(rowId, editingRowId)
    /\ Settle(data, columnFilters, debouncedGlobalFilter, sorting,
              paginationState, rowSelection, FALSE, rowId, editedRow,
              draftTouched, FALSE)
    /\ lastOp' = IF MountedEditor # 0 THEN "editOther" ELSE "edit"
    /\ saved' = NoCall /\ exported' = NoCall
    /\ UNCHANGED <<globalFilter, mountData, pendingSearch, paginationEnabled, shapeFieldKeys, columnVars>>

\* getVisibleColumns that takes only explicitly shown columns as visible
getVisibleColumns_OnlyShown(order, visibility) ==
    LET shown(key) == /\ key \in DOMAIN shape /\ shape[key].present
                      /\ visibility[key] = "shown"
    IN  SelectSeq(order, shown)

\* getVisibleColumns(shape, columnOrder, columnVisibility) of the export, also
\* the filter RowEditor applies to the columns it shows
getVisibleColumns(order, visibility) ==
    LET shown(key) == /\ key \in DOMAIN shape /\ shape[key].present
                      /\ visibility[key] # "hidden"
    IN  SelectSeq(order, shown)

\* DataTableRow.visibleColumns: the cells a row renders, left to right
DataTableRowColumns(order, visibility) ==
    LET config(key) == IF key \in DOMAIN shape /\ shape[key].present
                       THEN shape[key] ELSE Undef
        keep(key) == IF config(key) = Undef THEN FALSE
                     ELSE visibility[key] # "hidden"
    IN  SelectSeq(order, keep)

\* RowEditor.handleFieldChange through the EditorCell of an editable column
handleFieldChange(key, value) ==
    /\ MountedEditor # 0
    /\ key \in Range(getVisibleColumns(columnOrder, columnVisibility))
    /\ shape[key].editable
    /\ Settle(data, columnFilters, debouncedGlobalFilter, sorting,
              paginationState, rowSelection, FALSE, editingRowId,
              [editedRow EXCEPT ![MountedEditor][key] = value], TRUE, FALSE)
    /\ lastOp' = "fieldChange"
    /\ saved' = NoCall /\ exported' = NoCall
    /\ UNCHANGED <<globalFilter, mountData, pendingSearch, paginationEnabled, shapeFieldKeys, columnVars>>

\* row[key] as a JavaScript value (the identity is kept as a bare number)
Field(row, key) == IF key = "id" THEN Num(row.id) ELSE row[key]

\* hasChanges with every() in place of some()
hasChanges_Every(row, draft) ==
    \A key \in RecordKeys : hasValueChanged(Field(row, key), Field(draft, key))

\* RowEditor.handleSave: hasChanges
hasChanges(row, draft) ==
    \E key \in RecordKeys : hasValueChanged(Field(row, key), Field(draft, key))

\* the example page's handleRowSave: replace the record with the same id
handleRowSave(prev, updatedRow) ==
    [i \in 1..Len(prev) |->
        IF prev[i].id = updatedRow.id THEN updatedRow ELSE prev[i]]

\* EditorActionCell: Save -> RowEditor.handleSave -> onSave
handleSave ==
    /\ MountedEditor # 0
    /\ LET row == RowById(data, MountedEditor)
           draft == editedRow[MountedEditor]
       IN  IF hasChanges(row, draft)
           THEN /\ saved' = [t |-> "call", row |-> draft]
                /\ Settle(handleRowSave(data, draft), columnFilters,
                          debouncedGlobalFilter, sorting, paginationState,
                          rowSelection, FALSE, 0, editedRow, draftTouched, TRUE)
           ELSE /\ saved' = NoCall
                /\ Settle(data, columnFilters, debouncedGlobalFilter, sorting,
                          paginationState, rowSelection, FALSE, editingRowId,
                          editedRow, draftTouched, FALSE)
    /\ lastOp' = "save"
    /\ exported' = NoCall
    /\ UNCHANGED <<globalFilter, mountData, pendingSearch, paginationEnabled, shapeFieldKeys, columnVars>>

\* a Cancel that goes through handleSave: it saves a draft with changes
handleCancel_Saves ==
    /\ MountedEditor # 0
    /\ LET row == RowById(data, MountedEditor)
           draft == editedRow[MountedEditor]
       IN  /\ saved' = IF hasChanges(row, draft)
                       THEN [t |-> "call", row |-> draft] ELSE NoCall
           /\ Settle(IF hasChanges(row, draft) THEN handleRowSave(data, draft)
                     ELSE data,
                     columnFilters, debouncedGlobalFilter, sorting,
                     paginationState, rowSelection, FALSE, 0, editedRow,
                     draftTouched, hasChanges(row, draft))
           /\ lastOp' = IF draft # row THEN "cancelChanged" ELSE "cancel"
    /\ exported' = NoCall
    /\ UNCHANGED <<globalFilter, mountData, pendingSearch, paginationEnabled, shapeFieldKeys, columnVars>>

\* { ...row, [columnKey]: newValue }
WithField(row, key, value) ==
    IF key = "id" THEN [row EXCEPT !.id = value.n]
    ELSE [row EXCEPT ![key] = value]

\* DataTableCell of a displayed DataTableRow: the value shown and edited
CellValue(row, key) ==
    IF shape[key].type = "boolean" /\ IsNullish(row[key]) THEN Bool(FALSE)
    ELSE Field(row, key)

\* EditableCell -> CellInlineEditor: Save with newValue in the cell of column
\* key of a displayed row; DataTableCell.onSave passes the updated record to
\* onRowSave and the owner merges it
CellSave(rowId, key, newValue) ==
    /\ rowId \in CurrentIds
    /\ ~IsEditing(rowId, editingRowId)
    /\ key \in Range(DataTableRowColumns(columnOrder, columnVisibility))
    /\ shape[key].editable
    /\ LET row == RowById(data, rowId)
           updatedRow == WithField(row, key, newValue)
       IN  IF hasValueChanged(CellValue(row, key), newValue)
           THEN /\ saved' = [t |-> "call", row |-> updatedRow]
                /\ Settle(handleRowSave(data, updatedRow), columnFilters,
                          debouncedGlobalFilter, sorting, paginationState,
                          rowSelection, FALSE, editingRowId, editedRow,
                          draftTouched, TRUE)
           ELSE /\ saved' = NoCall
                /\ Settle(data, columnFilters, debouncedGlobalFilter, sorting,
                          paginationState, rowSelection, FALSE, editingRowId,
                          editedRow, draftTouched, FALSE)
    /\ lastOp' = "cellSave"
    /\ exported' = NoCall
    /\ UNCHANGED <<globalFilter, mountData, pendingSearch, paginationEnabled, shapeFieldKeys, columnVars>>

\* EditorActionCell: Cancel -> onCancel; the log tells a Cancel on a draft
\* that differs from its row ("cancelChanged") from one on an equal draft
handleCancel ==
    /\ MountedEditor # 0
    /\ Settle(data, columnFilters, debouncedGlobalFilter, sorting,
              paginationState, rowSelection, FALSE, 0, editedRow,
              draftTouched, FALSE)
    /\ lastOp' = IF editedRow[MountedEditor] # RowById(data, MountedEditor)
                 THEN "cancelChanged" ELSE "cancel"
    /\ saved' = NoCall /\ exported' = NoCall
    /\ UNCHANGED <<globalFilter, mountData, pendingSearch, paginationEnabled, shapeFieldKeys, columnVars>>


(***************************************************************************)
(* Export                                                                  *)
(***************************************************************************)
Yes == <<"Y", "e", "s">>
No == <<"N", "o">>

\* formatValueForExport(value, columnKey, shape)
formatValueForExport(value, columnKey) ==
    LET config == shape[columnKey]
    IN  IF ~config.present THEN value
        ELSE IF IsNullish(value) THEN Str(<<>>)
        ELSE CASE config.type = "boolean" ->
                    IF Falsy(value) THEN Str(No) ELSE Str(Yes)
               [] config.type = "multi-select" ->
                    IF value.t = "array" THEN Str(JoinComma(value.a))
                    ELSE Str(<<>>)
               [] config.type = "number" ->
                    IF value.t = "number" THEN value ELSE Str(<<>>)
               [] OTHER ->
                    IF Falsy(value) THEN Str(<<>>) ELSE Str(String(value))

\* exportToExcel without the check for an empty column list
exportToExcel_NoColumnCheck(rows, visibleColumns, order, selectedRows) ==
    LET dataToExport == IF Len(selectedRows) > 0 THEN selectedRows ELSE rows
        keep(key) == /\ key \in DOMAIN shape /\ shape[key].present
                     /\ key \in Range(visibleColumns)
        exportColumns == SelectSeq(order, keep)
    IN  IF Len(dataToExport) = 0
        THEN [t |-> "alert", message |-> "No data to export"]
        ELSE [t |-> "saveAs",
              columns |-> exportColumns,
              headers |-> [c \in 1..Len(exportColumns) |->
                              shape[exportColumns[c]].label],
              source |-> dataToExport,
              rows |-> [r \in 1..Len(dataToExport) |->
                          [c \in 1..Len(exportColumns) |->
                              formatValueForExport(
                                  dataToExport[r][exportColumns[c]],
                                  exportColumns[c])]]]

\* exportToExcel: what it reports (alert) or writes (saveAs)
exportToExcel(rows, visibleColumns, order, selectedRows) ==
    LET dataToExport == IF Len(selectedRows) > 0 THEN selectedRows ELSE rows
        keep(key) == /\ key \in DOMAIN shape /\ shape[key].present
                     /\ key \in Range(visibleColumns)
        exportColumns == SelectSeq(order, keep)
    IN  IF Len(dataToExport) = 0
        THEN [t |-> "alert", message |-> "No data to export"]
        ELSE IF Len(exportColumns) = 0
        THEN [t |-> "alert", message |-> "No visible columns to export"]
        ELSE [t |-> "saveAs",
              columns |-> exportColumns,
              headers |-> [c \in 1..Len(exportColumns) |->
                              IF shape[exportColumns[c]].label # ""
                              THEN shape[exportColumns[c]].label
                              ELSE exportColumns[c]],
              source |-> dataToExport,
              rows |-> [r \in 1..Len(dataToExport) |->
                          [c \in 1..Len(exportColumns) |->
                              formatValueForExport(
                                  dataToExport[r][exportColumns[c]],
                                  exportColumns[c])]]]

\* table.getSelectedRowModel().rows: the records of data that are selected
getSelectedRowModel(d, sel) ==
    LET isSelected(row) == row.id \in sel IN SelectSeq(d, isSelected)

\* handleExport reading getRowModel() (the page) instead of getSortedRowModel()
ExportRowModel_Page(d, order, filters, query, sort, pag, paged) ==
    RowModelRows(d, order, filters, query, sort, pag, paged)

\* the rows handleExport hands over as `data`
ExportRowModel(d, order, filters, query, sort, pag, paged) ==
    SortedRows(d, order, filters, query, sort)

\* ExportButton: onClick -> handleExport
handleExport ==
    /\ LET rows == ExportRowModel(data, columnOrder, columnFilters,
                                  debouncedGlobalFilter, sorting,
                                  paginationState, paginationEnabled)
           processedData == [k \in 1..Len(rows) |-> data[rows[k]]]
           selectedRows == IF rowSelection # {}
                           THEN getSelectedRowModel(data, rowSelection)
                           ELSE <<>>
       IN  exported' = exportToExcel(processedData,
                           getVisibleColumns(columnOrder, columnVisibility),
                           columnOrder, selectedRows)
    /\ lastOp' = "export"
    /\ pruned' = {} /\ saved' = NoCall /\ notified' = NoCall
    /\ UNCHANGED <<tableVars, mountData, pendingSearch, paginationEnabled, shapeFieldKeys, columnVars>>

(***************************************************************************)
(* Column controls                                                         *)
(***************************************************************************)
IsVisible(visibility, key) == visibility[key] # "hidden"

\* toggleColumn without the check for the last visible column
toggleColumnCall_Unguarded(visibility, columnKey) ==
    [t |-> "call",
     value |-> [visibility EXCEPT ![columnKey] =
                   IF IsVisible(visibility, columnKey) THEN "hidden"
                   ELSE "shown"]]

\* ColumnControls.toggleColumn(columnKey): the onColumnVisibilityChange call
\* it makes, if any, computed from the props it was rendered with
toggleColumnCall(visibility, columnKey) ==
    LET isCurrentlyVisible == IsVisible(visibility, columnKey)
        visibleColumns == {key \in Range(availableColumns) :
                              IsVisible(visibility, key)}
    IN  IF isCurrentlyVisible /\ Cardinality(visibleColumns) <= 1
        THEN NoCall
        ELSE [t |-> "call",
              value |-> [visibility EXCEPT ![columnKey] =
                            IF isCurrentlyVisible THEN "hidden" ELSE "shown"]]

toggleColumn(columnKey) ==
    /\ columnKey \in Range(availableColumns)
    /\ LET call == toggleColumnCall(renderedVisibility, columnKey)
       IN  columnVisibility' = IF call.t = "call" THEN call.value
                               ELSE columnVisibility
    /\ togglesSinceRender' = IF togglesSinceRender = 0 THEN 1 ELSE 2
    /\ lastOp' = "toggleColumn"
    /\ UNCHANGED <<renderedVisibility, columnOrderState>>
    /\ UNCHANGED <<tableVars, mountData, pendingSearch, paginationEnabled, shapeFieldKeys,
                   pruned, saved, notified, exported>>

\* the re-render that hands the new columnVisibility to ColumnControls
RenderColumnControls ==
    /\ renderedVisibility # columnVisibility \/ togglesSinceRender # 0
    /\ renderedVisibility' = columnVisibility
    /\ togglesSinceRender' = 0
    /\ lastOp' = "render"
    /\ UNCHANGED <<columnVisibility, columnOrderState>>
    /\ UNCHANGED <<tableVars, mountData, pendingSearch, paginationEnabled, shapeFieldKeys,
                   pruned, saved, notified, exported>>

\* a moveColumn without the bounds check: at either end the column wraps to
\* the other end
moveColumnCall_Wraps(order, columnKey, direction) ==
    LET currentIndex == IF columnKey \in Range(order)
                        THEN CHOOSE i \in 1..Len(order) : order[i] = columnKey
                        ELSE 0
        targetIndex == IF direction = "up"
                       THEN (IF currentIndex = 1 THEN Len(order)
                             ELSE currentIndex - 1)
                       ELSE (IF currentIndex = Len(order) THEN 1
                             ELSE currentIndex + 1)
    IN  IF currentIndex = 0 THEN NoCall
        ELSE [t |-> "call",
              value |-> [order EXCEPT ![currentIndex] = order[targetIndex],
                                      ![targetIndex] = order[currentIndex]]]

\* ColumnControls.moveColumn(columnKey, direction): the onColumnOrderChange
\* call it makes, if any
moveColumnCall(order, columnKey, direction) ==
    LET currentIndex == IF columnKey \in Range(order)
                        THEN CHOOSE i \in 1..Len(order) : order[i] = columnKey
                        ELSE 0
        targetIndex == IF direction = "up" THEN currentIndex - 1
                       ELSE currentIndex + 1
    IN  IF currentIndex = 0 THEN NoCall
        ELSE IF targetIndex < 1 \/ targetIndex > Len(order) THEN NoCall
        ELSE [t |-> "call",
              value |-> [order EXCEPT ![currentIndex] = order[targetIndex],
                                      ![targetIndex] = order[currentIndex]]]

moveColumn(columnKey, direction) ==
    /\ LET call == moveColumnCall(columnOrder, columnKey, direction)
       IN  columnOrderState' = IF call.t = "call" THEN call.value
                               ELSE columnOrderState
    /\ lastOp' = "moveColumn"
    /\ UNCHANGED <<columnVisibility, renderedVisibility, togglesSinceRender>>
    /\ UNCHANGED <<tableVars, mountData, pendingSearch, paginationEnabled, shapeFieldKeys,
                   pruned, saved, notified, exported>>

\* items.splice(source, 1) then items.splice(destination, 0, item)
spliceMove(order, source, destination) ==
    LET item == order[source]
        rest == SubSeq(order, 1, source - 1) \o SubSeq(order, source + 1, Len(order))
    IN  SubSeq(rest, 1, destination - 1) \o <<item>>
        \o SubSeq(rest, destination, Len(rest))

\* ColumnControls.handleDragEnd(result); destination 0 is a drop outside
handleDragEnd(source, destination) ==
    /\ source \in 1..Len(columnOrder)
    /\ destination \in 0..Len(columnOrder)
    /\ columnOrderState' = IF destination = 0 THEN columnOrderState
                           ELSE spliceMove(columnOrder, source, destination)
    /\ lastOp' = "dragEnd"
    /\ UNCHANGED <<columnVisibility, renderedVisibility, togglesSinceRender>>
    /\ UNCHANGED <<tableVars, mountData, pendingSearch, paginationEnabled, shapeFieldKeys,
                   pruned, saved, notified, exported>>

(***************************************************************************)
(* Specifications                                                          *)
(***************************************************************************)
\* what the user types in the search box
SearchInputs == {<<>>, <<"B", "O">>}

FilterKeys == {"active"}

\* the view: filters, search, sorting, pagination, selection, export
Next ==
    \/ \E key \in FilterKeys : \E choice \in FilterChoices(key) :
          SetColumnFilter(key, choice)
    \/ \E text \in SearchInputs : TypeSearch(text)
    \/ DebounceElapsed
    \/ \E key \in Range(availableColumns) : \E multi \in BOOLEAN :
          HeaderClick(key, multi)
    \/ clearSorting
    \/ \E key \in Range(availableColumns) : removeSortColumn(key)
    \/ \E pageIndex \in 0..NumRows : SetPageIndex(pageIndex)
    \/ \E pageSize \in allPageSizeOptions : SetPageSize(pageSize)
    \/ \E rowId \in RowIds : ToggleRowSelected(rowId)
    \/ ToggleAllPageRows
    \/ handleExport

Spec == Init /\ [][Next]_vars

\* row editing, with the selection and the pages it interacts with
NextEdit ==
    \/ \E rowId \in RowIds : RequestEdit(rowId)
    \/ \E value \in NameInputs : handleFieldChange("name", Str(value))
    \/ handleSave
    \/ handleCancel
    \/ \E rowId \in RowIds : ToggleRowSelected(rowId)
    \/ \E pageIndex \in 0..NumRows : SetPageIndex(pageIndex)

SpecEdit == Init /\ [][NextEdit]_vars

\* the column controls: visibility and order
NextColumns ==
    \/ \E key \in Range(availableColumns) : toggleColumn(key)
    \/ RenderColumnControls
    \/ \E key \in Range(ShapeKeys) : \E direction \in {"up", "down"} :
          moveColumn(key, direction)
    \/ \E source \in 1..Len(ShapeKeys) : \E destination \in 0..Len(ShapeKeys) :
          handleDragEnd(source, destination)

SpecColumns == Init /\ [][NextColumns]_vars

(***************************************************************************)
(* The table mounted on state restored from storage (persistStorage): any  *)
(* stored column order and visibility, and the owner's records possibly    *)
(* empty.  The stored order has been merged with the shape by the sync     *)
(* effect of the first render.                                             *)
(***************************************************************************)
StoredKeys == Range(ShapeKeys) \cup {"removed"}

\* orders written by an earlier mount, possibly under another shape: up to
\* three keys, none repeated
StoredOrders ==
    {o \in {<<>>} \cup {<<a>> : a \in StoredKeys}
           \cup {<<a, b>> : a \in StoredKeys, b \in StoredKeys}
           \cup {<<a, b, c>> : a \in StoredKeys, b \in StoredKeys,
                               c \in StoredKeys} :
        \A i \in 1..Len(o) : \A j \in 1..Len(o) : o[i] = o[j] => i = j}

StoredVisibilities ==
    {v \in [Range(ShapeKeys) -> {"unset", "shown", "hidden"}] :
        v["legacy"] = "unset"}

InitRestored ==
    /\ data \in {InitialData, <<>>}
    /\ mountData = data
    /\ columnFilters = [key \in Range(ShapeKeys) |-> Undef]
    /\ globalFilter = <<>>
    /\ debouncedGlobalFilter = <<>>
    /\ pendingSearch = <<>>
    /\ sorting = <<>>
    /\ paginationState = initialPaginationState
    /\ paginationEnabled = TRUE
    /\ rowSelection = {}
    /\ editingRowId = 0
    /\ editedRow = [r \in RowIds |-> NoDraft]
    /\ draftTouched = FALSE
    /\ columnVisibility \in StoredVisibilities
    /\ renderedVisibility = columnVisibility
    /\ columnOrderState \in
          {mergeColumnOrder(o, getCurrentColumnOrder) : o \in StoredOrders}
    /\ shapeFieldKeys = getCurrentColumnOrder
    /\ togglesSinceRender = 0
    /\ lastOp = "mount"
    /\ pruned = {}
    /\ saved = NoCall
    /\ notified = handleSelectionChange(data, {})
    /\ exported = NoCall

NextExport ==
    \/ handleExport
    \/ \E rowId \in RowIds : ToggleRowSelected(rowId)

SpecExport == InitRestored /\ [][NextExport]_vars

(***************************************************************************)
(* The column order under shape changes: the table mounts on any stored    *)
(* order and any shape, the owner passes shapes with other keys, and the   *)
(* user moves and drags columns.                                           *)
(***************************************************************************)
\* the keys a shape may declare: those of the example and one more
OrderKeys == Range(getCurrentColumnOrder) \cup {"removed"}

\* Object.keys of a shape, or an order stored under one: no key twice
KeyLists ==
    {o \in {<<>>} \cup {<<a>> : a \in OrderKeys}
           \cup {<<a, b>> : a \in OrderKeys, b \in OrderKeys}
           \cup {<<a, b, c>> : a \in OrderKeys, b \in OrderKeys,
                               c \in OrderKeys} :
        \A i \in 1..Len(o) : \A j \in 1..Len(o) : o[i] = o[j] => i = j}

InitOrder ==
    /\ data = InitialData
    /\ mountData = InitialData
    /\ columnFilters = [key \in Range(ShapeKeys) |-> Undef]
    /\ globalFilter = <<>>
    /\ debouncedGlobalFilter = <<>>
    /\ pendingSearch = <<>>
    /\ sorting = <<>>
    /\ paginationState = initialPaginationState
    /\ paginationEnabled = TRUE
    /\ rowSelection = {}
    /\ editingRowId = 0
    /\ editedRow = [r \in RowIds |-> NoDraft]
    /\ draftTouched = FALSE
    /\ columnVisibility = [key \in Range(ShapeKeys) |-> "unset"]
    /\ renderedVisibility = columnVisibility
    /\ columnOrderState \in KeyLists
    /\ shapeFieldKeys \in KeyLists
    /\ togglesSinceRender = 0
    /\ lastOp = "mount"
    /\ pruned = {}
    /\ saved = NoCall
    /\ notified = handleSelectionChange(data, {})
    /\ exported = NoCall

\* the effect that writes mergedColumnOrder back when it differs from the
\* stored order
SyncColumnOrder ==
    /\ columnOrder # columnOrderState
    /\ columnOrderState' = columnOrder
    /\ lastOp' = "sync"
    /\ UNCHANGED <<columnVisibility, renderedVisibility, togglesSinceRender>>
    /\ UNCHANGED <<tableVars, mountData, pendingSearch, paginationEnabled, shapeFieldKeys,
                   pruned, saved, notified, exported>>

\* the owner passes a shape with other truthy keys: the render merges the
\* stored order with them and the effect stores the merged order
ShapeChange(keys) ==
    /\ columnOrder = columnOrderState
    /\ keys # shapeFieldKeys
    /\ shapeFieldKeys' = keys
    /\ columnOrderState' = mergeColumnOrder(columnOrderState, keys)
    /\ lastOp' = "shape"
    /\ UNCHANGED <<columnVisibility, renderedVisibility, togglesSinceRender>>
    /\ UNCHANGED <<tableVars, mountData, pendingSearch, paginationEnabled,
                   pruned, saved, notified, exported>>

\* the effect of the mount has run: nothing is left to write back
Synced == columnOrder = columnOrderState

\* ColumnControls.moveColumn on the mounted table
MoveColumnMounted(columnKey, direction) ==
    Synced /\ moveColumn(columnKey, direction)

\* ColumnControls.handleDragEnd on the mounted table
DragEndMounted(source, destination) ==
    Synced /\ handleDragEnd(source, destination)

NextOrder ==
    \/ SyncColumnOrder
    \/ \E keys \in KeyLists : ShapeChange(keys)
    \/ \E key \in OrderKeys : \E direction \in {"up", "down"} :
          MoveColumnMounted(key, direction)
    \/ \E source \in 1..Len(ShapeKeys) : \E destination \in 0..Len(ShapeKeys) :
          DragEndMounted(source, destination)

SpecOrder == InitOrder /\ [][NextOrder]_vars

(***************************************************************************)
(* Pagination restored from storage (persistStorage): the pagination state *)
(* an earlier mount stored, and the records the owner passes at this       *)
(* mount, possibly fewer than before.                                      *)
(***************************************************************************)
\* the states a mount with up to NumRows records can have stored
StoredPaginationStates ==
    {pag \in [pageIndex : 0..(NumRows - 1), pageSize : allPageSizeOptions] :
        pag.pageIndex < Max(1, getPageCount(NumRows, pag.pageSize))}

InitPaging ==
    /\ data \in {SubSeq(InitialData, 1, n) : n \in 0..NumRows}
    /\ mountData = data
    /\ columnFilters = [key \in Range(ShapeKeys) |-> Undef]
    /\ globalFilter = <<>>
    /\ debouncedGlobalFilter = <<>>
    /\ pendingSearch = <<>>
    /\ sorting = <<>>
    /\ paginationState \in StoredPaginationStates
    /\ paginationEnabled = TRUE
    /\ rowSelection = {}
    /\ editingRowId = 0
    /\ editedRow = [r \in RowIds |-> NoDraft]
    /\ draftTouched = FALSE
    /\ columnVisibility = [key \in Range(ShapeKeys) |-> "unset"]
    /\ renderedVisibility = columnVisibility
    /\ columnOrderState = getCurrentColumnOrder
    /\ shapeFieldKeys = getCurrentColumnOrder
    /\ togglesSinceRender = 0
    /\ lastOp = "mount"
    /\ pruned = {}
    /\ saved = NoCall
    /\ notified = handleSelectionChange(data, {})
    /\ exported = NoCall

NextPaging ==
    \/ \E pageIndex \in 0..NumRows : SetPageIndex(pageIndex)
    \/ \E pageSize \in allPageSizeOptions : SetPageSize(pageSize)
    \/ \E key \in FilterKeys : \E choice \in FilterChoices(key) :
          SetColumnFilter(key, choice)
    \/ \E rowId \in RowIds : ToggleRowSelected(rowId)

SpecPaging == InitPaging /\ [][NextPaging]_vars

(***************************************************************************)
(* The column filters of the header, the multi-select filter included,     *)
(* with paging and row selection.                                          *)
(***************************************************************************)
MultiSelectKeys ==
    {key \in Range(availableColumns) : shape[key].type = "multi-select"}

NextFilters ==
    \/ \E key \in Range(availableColumns) : \E choice \in FilterChoices(key) :
          SetColumnFilter(key, choice)
    \/ \E key \in MultiSelectKeys : \E selected \in SkillSelections :
          SetMultiSelectFilter(key, selected)
    \/ \E key \in Range(availableColumns) : \E text \in TextFilterInputs :
          ApplyTextFilter(key, text)
    \/ \E pageIndex \in 0..NumRows : SetPageIndex(pageIndex)
    \/ \E rowId \in RowIds : ToggleRowSelected(rowId)

SpecFilters == Init /\ [][NextFilters]_vars

(***************************************************************************)
(* The search box typed into one keystroke at a time, with the debounce    *)
(* timer: a pending timer fires once its delay has elapsed.                *)
(***************************************************************************)
SearchKeystrokes == {<<>>, <<"B">>, <<"B", "O">>}

NextSearch ==
    \/ \E text \in SearchKeystrokes : TypeSearch(text)
    \/ DebounceElapsed
    \/ \E key \in FilterKeys : \E choice \in FilterChoices(key) :
          SetColumnFilter(key, choice)
    \/ \E pageIndex \in 0..NumRows : SetPageIndex(pageIndex)
    \/ \E rowId \in RowIds : ToggleRowSelected(rowId)

\* the step of DebounceElapsed on the timers alone: the oldest pending timer
\* fires
DebounceTimerFires ==
    /\ pendingSearch # <<>>
    /\ pendingSearch' = Tail(pendingSearch)

\* a pending timer fires once its delay has elapsed
SpecSearch ==
    Init /\ [][NextSearch]_vars /\ WF_pendingSearch(DebounceTimerFires)

(***************************************************************************)
(* A table that shows its identity field as a column: rowId = "id" and the *)
(* shape has an "id" entry.  Rows are edited in the row editor and inline  *)
(* in their cells.                                                         *)
(***************************************************************************)
IdShapeKeys == <<"id">> \o ShapeKeys

IdColumnOrder ==
    LET truthy(key) == shape[key].present IN SelectSeq(IdShapeKeys, truthy)

\* what the user can type in the editor of the id column
IdInputs == {2}

\* what the user can leave in the inline editor of a cell
CellInputs(key) ==
    IF key = "id" THEN {Num(n) : n \in IdInputs}
    ELSE {Str(value) : value \in NameInputs}

InitCell ==
    /\ data = InitialData
    /\ mountData = InitialData
    /\ columnFilters = [key \in Range(IdShapeKeys) |-> Undef]
    /\ globalFilter = <<>>
    /\ debouncedGlobalFilter = <<>>
    /\ pendingSearch = <<>>
    /\ sorting = <<>>
    /\ paginationState = initialPaginationState
    /\ paginationEnabled \in BOOLEAN
    /\ rowSelection = {}
    /\ editingRowId = 0
    /\ editedRow = [r \in RowIds |-> NoDraft]
    /\ draftTouched = FALSE
    /\ columnVisibility = [key \in Range(IdShapeKeys) |-> "unset"]
    /\ renderedVisibility = columnVisibility
    /\ columnOrderState = IdColumnOrder
    /\ shapeFieldKeys = IdColumnOrder
    /\ togglesSinceRender = 0
    /\ lastOp = "mount"
    /\ pruned = {}
    /\ saved = NoCall
    /\ notified = handleSelectionChange(InitialData, {})
    /\ exported = NoCall

EditableKeys == {key \in Range(IdColumnOrder) : shape[key].editable}

NextCell ==
    \/ \E rowId \in RowIds : \E key \in EditableKeys :
          \E newValue \in CellInputs(key) : CellSave(rowId, key, newValue)
    \/ \E rowId \in RowIds : RequestEdit(rowId)
    \/ \E value \in NameInputs : handleFieldChange("name", Str(value))
    \/ \E n \in IdInputs : handleFieldChange("id", n)
    \/ handleSave
    \/ handleCancel
    \/ \E pageIndex \in 0..NumRows : SetPageIndex(pageIndex)

SpecCell == InitCell /\ [][NextCell]_vars

(***************************************************************************)
(* Change detection in the row editor: the name of record 1 holds any of   *)
(* the values below, and the editor of record 1 puts any of them in the    *)
(* draft before Save.                                                      *)
(***************************************************************************)
ChangeValues ==
    {Null, Undef, Str(<<>>), Str(NameAl), Str(NameBo), Str(IsoDay1),
     Str(IsoDay1Z), Str(IsoDay2), Num(0), Num(1), Bool(FALSE), Bool(TRUE),
     DateObj(19723), DateObj(19724)}

InitChange ==
    /\ data \in {[InitialData EXCEPT ![1]["name"] = value] :
                    value \in ChangeValues}
    /\ mountData = data
    /\ columnFilters = [key \in Range(ShapeKeys) |-> Undef]
    /\ globalFilter = <<>>
    /\ debouncedGlobalFilter = <<>>
    /\ pendingSearch = <<>>
    /\ sorting = <<>>
    /\ paginationState = initialPaginationState
    /\ paginationEnabled \in BOOLEAN
    /\ rowSelection = {}
    /\ editingRowId = 0
    /\ editedRow = [r \in RowIds |-> NoDraft]
    /\ draftTouched = FALSE
    /\ columnVisibility = [key \in Range(ShapeKeys) |-> "unset"]
    /\ renderedVisibility = columnVisibility
    /\ columnOrderState = getCurrentColumnOrder
    /\ shapeFieldKeys = getCurrentColumnOrder
    /\ togglesSinceRender = 0
    /\ lastOp = "mount"
    /\ pruned = {}
    /\ saved = NoCall
    /\ notified = handleSelectionChange(data, {})
    /\ exported = NoCall

NextChange ==
    \/ RequestEdit(1)
    \/ \E value \in ChangeValues : handleFieldChange("name", value)
    \/ handleSave
    \/ handleCancel

SpecChange == InitChange /\ [][NextChange]_vars

(***************************************************************************)
(* Properties                                                              *)
(***************************************************************************)
VisibleColumnKeys ==
    {key \in Range(availableColumns) : columnVisibility[key] # "hidden"}

\* C1: in every state reached by toggleColumn calls from the state with all
\* columns visible, at least one column of the shape is visible, also when
\* several calls are made on the same rendered columnVisibility.
C1_AtLeastOneColumnVisible == Cardinality(VisibleColumnKeys) >= 1

\* two toggles on one rendered snapshot have left a single visible column
C1_Witness ==
    /\ lastOp = "toggleColumn"
    /\ togglesSinceRender = 2
    /\ Cardinality(VisibleColumnKeys) = 1

\* C2: after a change of a column filter or of the applied search query and
\* the pruning that follows, every selected identity is a row of the filtered
\* row set, and no identity is selected that was not selected before.
C2_PrunedToFilteredRows ==
    [][lastOp' \in {"filter", "search"} =>
          /\ rowSelection' \subseteq CurrentFilteredIds'
          /\ rowSelection' \subseteq rowSelection]_vars

\* a filter or search change dropped some selected rows and kept others
C2_Witness ==
    /\ lastOp \in {"filter", "search"}
    /\ pruned # {}
    /\ rowSelection # {}

DraftIds == {r \in RowIds : editedRow[r] # NoDraft}

\* C3: Save in the row editor calls onRowSave, with the draft, exactly when
\* some field of the draft differs from the row according to hasValueChanged;
\* a draft equal to the row (untouched, or changed and changed back) makes
\* no call and leaves the data as it is.
C3_SaveCallsOnRowSaveIffChanged ==
    [][lastOp' = "save" =>
          LET row == RowById(data, MountedEditor)
              draft == editedRow[MountedEditor]
              differs == \E key \in RecordKeys :
                            hasValueChanged(Field(row, key), Field(draft, key))
          IN  /\ differs <=> saved'.t = "call"
              /\ differs => saved'.row = draft
              /\ draft = row => (saved' = NoCall /\ data' = data)]_vars

\* Save was pressed on a draft that was changed and changed back: no call
C3_Witness ==
    /\ lastOp = "save"
    /\ draftTouched
    /\ saved = NoCall
    /\ MountedEditor # 0
    /\ editedRow[MountedEditor] = RowById(data, MountedEditor)

\* the records of the filtered and sorted row set that are selected
LiveSelectedRecords ==
    {data[CurrentSorted[k]] : k \in {j \in 1..Len(CurrentSorted) :
                                        data[CurrentSorted[j]].id \in rowSelection}}

\* C4: every call of onSelectionChange passes exactly the records of the
\* current filtered and sorted row set whose identity is selected, also after
\* the data was updated by a row save.
C4_NotifiedWithLiveRecords ==
    notified.t = "call" => Range(notified.rows) = LiveSelectedRecords

\* C5 as stated: a sort toggle or a page change leaves rowSelection unchanged.
C5_SortAndPageKeepSelection ==
    [][lastOp' \in {"sort", "page"} => rowSelection' = rowSelection]_vars

\* C5 amended: a sort toggle or a page change adds no identity to
\* rowSelection and leaves in it only rows the table displays (the rows of
\* the current page when pagination is enabled); a page change keeps exactly
\* the selected rows shown on the new page; with pagination disabled a sort
\* toggle leaves rowSelection unchanged.
C5_SortAndPagePruneToDisplayedRows ==
    /\ [](lastOp \in {"sort", "page"} =>
            /\ rowSelection \subseteq CurrentIds
            /\ lastOp = "page" => pruned \cap CurrentIds = {}
            /\ ~paginationEnabled => pruned = {})
    /\ [][lastOp' \in {"sort", "page"} =>
            /\ rowSelection' \subseteq rowSelection
            /\ rowSelection' = rowSelection \ pruned']_vars

\* a sort toggle moved a selected row off the page and kept another
C5_Witness ==
    /\ lastOp = "sort"
    /\ paginationEnabled
    /\ pruned # {}
    /\ rowSelection # {}

\* C6: the rows exported are the selected rows when some row is selected,
\* and otherwise all rows of the filtered and sorted row set in sorted order,
\* whatever the page index and page size.
C6_ExportRowSource ==
    exported.t = "saveAs" =>
        IF rowSelection # {}
        THEN /\ Len(exported.source) = Cardinality(rowSelection)
             /\ Range(exported.source) =
                    {RowById(data, id) : id \in rowSelection}
        ELSE /\ Len(exported.source) = Len(CurrentSorted)
             /\ \A k \in 1..Len(CurrentSorted) :
                    exported.source[k] = data[CurrentSorted[k]]

\* nothing selected, sorted, more rows than a page holds: all are exported
C6_Witness ==
    /\ exported.t = "saveAs"
    /\ rowSelection = {}
    /\ paginationEnabled
    /\ sorting # <<>>
    /\ Len(exported.source) > paginationState.pageSize
    /\ exported.source # data

\* the keys of columnOrder with a config in the shape and not hidden
OrderedVisibleKeys ==
    LET keep(key) == /\ key \in Range(availableColumns)
                     /\ columnVisibility[key] # "hidden"
    IN  SelectSeq(columnOrder, keep)

\* C7: the exported columns are the keys of columnOrder that have a config in
\* the shape and are not hidden, in the order of columnOrder, the header row
\* is their labels, and DataTableRow renders the same sequence of columns.
C7_ExportColumnsAsDisplayed ==
    exported.t = "saveAs" =>
        /\ exported.columns = OrderedVisibleKeys
        /\ exported.headers = [c \in 1..Len(OrderedVisibleKeys) |->
                                  shape[OrderedVisibleKeys[c]].label]
        /\ exported.columns = DataTableRowColumns(columnOrder, columnVisibility)
        /\ \A r \in 1..Len(exported.rows) :
              Len(exported.rows[r]) = Len(exported.headers)

\* an export with a hidden column and an order other than the shape's
C7_Witness ==
    /\ exported.t = "saveAs"
    /\ \E key \in Range(availableColumns) : columnVisibility[key] = "hidden"
    /\ Len(exported.columns) >= 2
    /\ columnOrder # getCurrentColumnOrder

\* the rows handleExport has to export: the selection, else the sorted rows
ExportSourceEmpty ==
    IF rowSelection # {} THEN FALSE ELSE Len(CurrentSorted) = 0

\* C8: when the row source is empty or no column is visible, the export
\* alerts the user and writes no file; otherwise it writes one.
C8_EmptyExportAlerts ==
    lastOp = "export" =>
        /\ exported.t \in {"alert", "saveAs"}
        /\ (ExportSourceEmpty \/ OrderedVisibleKeys = <<>>)
              <=> exported.t = "alert"

\* rows to export but every column hidden: an alert, no file
C8_Witness ==
    /\ lastOp = "export"
    /\ ~ExportSourceEmpty
    /\ OrderedVisibleKeys = <<>>
    /\ exported.t = "alert"

\* C9: at most one row has a draft at any time; Edit on a row while another
\* row is being edited leaves exactly one draft, for the row requested, and
\* makes no onRowSave call nor changes the data.
C9_OneDraftAtATime ==
    [][/\ Cardinality(DraftIds') <= 1
       /\ lastOp' \in {"edit", "editOther"} =>
             /\ DraftIds' = {editingRowId'}
             /\ saved' = NoCall
             /\ data' = data]_vars

\* Edit was pressed on a row while the editor of another row was open
C9_Witness ==
    /\ lastOp = "editOther"
    /\ DraftIds = {editingRowId}

\* C10: after Save or Cancel in the row editor no row is in edit mode and no
\* draft is left, whether or not the draft had changes.
C10_SaveOrCancelEndsEdit ==
    lastOp \in {"save", "cancel", "cancelChanged"} =>
        (editingRowId = 0 /\ DraftIds = {})

\* C11: Cancel in the row editor ends edit mode whatever the draft holds,
\* calls neither onRowSave nor onSelectionChange nor the export, and leaves
\* the data as it was.
C11_CancelDiscardsDraft ==
    [][lastOp' \in {"cancel", "cancelChanged"} =>
          /\ editingRowId' = 0
          /\ DraftIds' = {}
          /\ saved' = NoCall
          /\ notified' = NoCall
          /\ exported' = NoCall
          /\ data' = data]_vars

\* Cancel was pressed on a draft that differed from its row
C11_Witness ==
    /\ lastOp = "cancelChanged"
    /\ editingRowId = 0
    /\ data = InitialData

\* a sequence has no element twice
NoRepeat(seq) == \A i \in 1..Len(seq) : \A j \in 1..Len(seq) :
                    seq[i] = seq[j] => i = j

\* C12: for any stored order and any sequence of moves, drags and shape
\* changes, the effective column order is a permutation of the truthy keys
\* of the current shape: each of them once, and no other key.
C12_ColumnOrderIsPermutation ==
    /\ Range(columnOrder) = Range(shapeFieldKeys)
    /\ Len(columnOrder) = Len(shapeFieldKeys)
    /\ NoRepeat(columnOrder)

\* after a shape change the order has two keys or more, not in shape order
C12_Witness ==
    /\ lastOp = "shape"
    /\ Len(columnOrder) >= 2
    /\ columnOrder # shapeFieldKeys

RECURSIVE OnlyIn(_, _)
\* seq without its elements that are not in keep, written element by element
OnlyIn(seq, keep) ==
    IF seq = <<>> THEN <<>>
    ELSE (IF Head(seq) \in keep THEN <<Head(seq)>> ELSE <<>>)
         \o OnlyIn(Tail(seq), keep)

RECURSIVE NotIn(_, _)
\* seq without its elements that are in drop
NotIn(seq, drop) ==
    IF seq = <<>> THEN <<>>
    ELSE (IF Head(seq) \in drop THEN <<>> ELSE <<Head(seq)>>)
         \o NotIn(Tail(seq), drop)

\* C13: mergeColumnOrder(storedOrder, currentColumns) is the elements of
\* storedOrder that occur in currentColumns, in the order of storedOrder,
\* followed by the elements of currentColumns that do not occur in
\* storedOrder, in the order of currentColumns.
C13_MergeKeepsStoredThenAppendsNew ==
    mergeColumnOrder(columnOrderState, shapeFieldKeys) =
        OnlyIn(columnOrderState, Range(shapeFieldKeys))
        \o NotIn(shapeFieldKeys, Range(columnOrderState))

\* a merge that drops a stored key, appends a new one and keeps a stored
\* order that is not the shape's
C13_Witness ==
    /\ lastOp = "mount"
    /\ ~(Range(columnOrderState) \subseteq Range(shapeFieldKeys))
    /\ ~(Range(shapeFieldKeys) \subseteq Range(columnOrderState))
    /\ Len(columnOrder) = 3
    /\ columnOrder[1] # shapeFieldKeys[1]

\* C14: merging the result of a merge with the same keys again changes
\* nothing: mergeColumnOrder(mergeColumnOrder(o, k), k) = mergeColumnOrder(o, k).
C14_MergeIdempotent ==
    mergeColumnOrder(mergeColumnOrder(columnOrderState, shapeFieldKeys),
                     shapeFieldKeys)
        = mergeColumnOrder(columnOrderState, shapeFieldKeys)

\* the effect stored a merged order that is neither the order stored before
\* nor the shape's order, and merging it again gives it back
C14_Witness ==
    /\ lastOp = "sync"
    /\ columnOrder = columnOrderState
    /\ columnOrderState # shapeFieldKeys
    /\ Len(columnOrderState) >= 2

\* the smallest integer not below a / b
CeilDiv(a, b) == (a + b - 1) \div b

\* C15: with pagination enabled and rows in the filtered row set, the page
\* index used to slice the page lies in 0 .. pageCount - 1 and the page shown
\* is not empty, also after a filter shrank the row set, the page size grew
\* or a stored page index was restored.
C15_PageIndexWithinPageCount ==
    (paginationEnabled /\ Len(CurrentSorted) > 0) =>
        /\ paginationState.pageIndex \in 0..(PageCount - 1)
        /\ CurrentRows # <<>>

\* C16: the page count is max(1, ceil(rowCount / pageSize)), 1 when no row
\* matches; 150 rows give 6 pages of 25 and 3 pages of 50, and going from 25
\* to 50 brings every page index from 3 on down to 2.
C16_PageCountAtLeastOne ==
    /\ paginationEnabled =>
          PageCount = Max(1, CeilDiv(Len(CurrentSorted),
                                     paginationState.pageSize))
    /\ getPageCount(150, 25) = 6
    /\ getPageCount(150, 50) = 3
    /\ \A pageIndex \in 3..5 :
          setPageSize([pageIndex |-> pageIndex, pageSize |-> 25], 50).pageIndex
              = 2

\* a step that is a click on the header of a sortable column
HeaderClickStep(key, multi) ==
    /\ lastOp' = "sort"
    /\ shape[key].sortable
    /\ sorting' = toggleSorting(sorting, key, getIsSorted(sorting, key) = "asc",
                                multi)

\* the sort entries of the other columns, in priority order
OtherSorts(sort, key) ==
    LET other(e) == e.id # key IN SelectSeq(sort, other)

SortKeysUnique ==
    \A i \in 1..Len(sorting) : \A j \in 1..Len(sorting) :
        sorting[i].id = sorting[j].id => i = j

\* C17 as stated: clicks on a header cycle the column's entry
\* asc -> desc -> removed.
C17_HeaderClickCyclesToRemoved ==
    [][\A key \in Range(availableColumns) : \A multi \in BOOLEAN :
          HeaderClickStep(key, multi) =>
             /\ getIsSorted(sorting, key) = "false"
                   => getIsSorted(sorting', key) = "asc"
             /\ getIsSorted(sorting, key) = "asc"
                   => getIsSorted(sorting', key) = "desc"
             /\ getIsSorted(sorting, key) = "desc"
                   => getIsSorted(sorting', key) = "false"]_vars

\* C17 amended: clicks on the header of a sortable column cycle its entry
\* asc -> desc -> asc: the first click adds it ascending, the second makes it
\* descending, the third makes it ascending again and no click removes it
\* (removeSortColumn and clearSorting do); with the multi-sort modifier the
\* other keys keep their priority order and an entry already there keeps its
\* place; no key occurs twice in the sort state.
C17_HeaderClickCyclesAscDesc ==
    /\ []SortKeysUnique
    /\ [][\A key \in Range(availableColumns) : \A multi \in BOOLEAN :
            HeaderClickStep(key, multi) =>
               /\ getIsSorted(sorting, key) = "false"
                     => getIsSorted(sorting', key) = "asc"
               /\ getIsSorted(sorting, key) = "asc"
                     => getIsSorted(sorting', key) = "desc"
               /\ getIsSorted(sorting, key) = "desc"
                     => getIsSorted(sorting', key) = "asc"
               /\ multi =>
                     /\ OtherSorts(sorting', key) = OtherSorts(sorting, key)
                     /\ SortIndex(sorting', key) =
                           IF SortIndex(sorting, key) # 0
                           THEN SortIndex(sorting, key)
                           ELSE Len(sorting) + 1]_vars

\* two sort keys, the first made descending with the other kept after it
C17_Witness ==
    /\ lastOp = "sort"
    /\ Len(sorting) = 2
    /\ sorting[1].desc
    /\ ~sorting[2].desc

\* the record passes every column filter that is set
PassesColumnFilters(row) ==
    \A key \in Range(DataColumns(columnOrder)) :
        FilterActive(columnFilters[key])
            => columnFilterFn(row, key, columnFilters[key])

\* some searchable column of the record contains the query, ignoring case
SearchableColumnContains(row, query) ==
    \E key \in Range(DataColumns(columnOrder)) :
        /\ shape[key].searchable
        /\ includes(toLowerCase(String(row[key])), toLowerCase(query))

\* C18: with global search enabled and a query applied, a record is in the
\* filtered row set exactly when (it passes the column filters and) some
\* searchable column's search string contains the query, ignoring case; a
\* column that is not searchable makes no record match.
C18_SearchMatchesSearchableColumns ==
    (searchable /\ debouncedGlobalFilter # <<>>) =>
        \A i \in 1..Len(data) :
            data[i].id \in CurrentFilteredIds
                <=> (/\ PassesColumnFilters(data[i])
                     /\ SearchableColumnContains(data[i],
                                                 debouncedGlobalFilter))

\* the record passes every column filter that is set, column `except` aside
PassesOtherFilters(row, except) ==
    \A key \in Range(DataColumns(columnOrder)) \ {except} :
        FilterActive(columnFilters[key])
            => columnFilterFn(row, key, columnFilters[key])

\* the cell is an array that shares a value with the filter's array
Intersects(cellValue, filterValue) ==
    /\ cellValue.t = "array"
    /\ Range(cellValue.a) \cap Range(filterValue.a) # {}

\* C19: while a multi-select column has a non-empty array as its filter, a
\* record is in the filtered row set exactly when (it passes the other
\* filters and) its cell is an array sharing at least one value with the
\* filter; a cell that is not an array matches no such filter; the filter
\* ["React"] matches the cell ["React","Vue"] and the filter ["Angular"] does
\* not.
C19_MultiSelectMatchesOnIntersection ==
    /\ \A key \in MultiSelectKeys :
          (columnFilters[key].t = "array" /\ Len(columnFilters[key].a) > 0) =>
              \A i \in 1..Len(data) :
                 data[i].id \in CurrentFilteredIds
                    <=> (/\ PassesOtherFilters(data[i], key)
                         /\ Intersects(data[i][key], columnFilters[key]))
    /\ \A key \in MultiSelectKeys :
          LET record == [InitialData[1] EXCEPT ![key] = Arr(<<React, Vue>>)]
          IN  /\ columnFilterFn(record, key, Arr(<<React>>))
              /\ ~columnFilterFn(record, key, Arr(<<Angular>>))

\* a two-value filter is set: the record with one of the two values is
\* shown, the record whose cell is a string is not
C19_Witness ==
    /\ lastOp = "filter"
    /\ columnFilters["skills"] = Arr(<<Vue, Angular>>)
    /\ 1 \in CurrentFilteredIds
    /\ 3 \notin CurrentFilteredIds
    /\ data[3]["skills"].t = "string"

\* C20: a step of a row edit (begin, field change, save with the owner
\* merging the saved record, cancel) or an export leaves the sort state, the
\* column filters, the search text, the column order, the column visibility
\* and the pagination state as they were.
C20_EditAndExportKeepViewState ==
    [][lastOp' \in {"edit", "editOther", "fieldChange", "save", "cancel",
                    "cancelChanged", "export"} =>
          UNCHANGED <<sorting, columnFilters, globalFilter,
                      debouncedGlobalFilter, columnOrderState,
                      columnVisibility, paginationState>>]_vars

\* the filtered rows the table would show with the typed query applied at
\* once
UndebouncedFilteredIds ==
    IdsOf(data, FilteredRows(data, columnOrder, columnFilters, globalFilter))

\* C21: the applied query changes only when the debounce timer fires; at
\* most one application is pending and it is the one of the last keystroke;
\* with none pending the applied query is the typed one and the filtered rows
\* are those of the typed query; and if typing stops at a query, the applied
\* query eventually is that query for good.
C21_DebounceAppliesLastQuery ==
    /\ [](Len(pendingSearch) <= 1)
    /\ [](pendingSearch # <<>> => pendingSearch = <<globalFilter>>)
    /\ [](pendingSearch = <<>> =>
            /\ debouncedGlobalFilter = globalFilter
            /\ CurrentFilteredIds = UndebouncedFilteredIds)
    /\ [][debouncedGlobalFilter' # debouncedGlobalFilter
              => (pendingSearch # <<>> /\ lastOp' = "search")]_vars
    /\ \A query \in SearchKeystrokes :
          <>[](globalFilter = query) => <>[](debouncedGlobalFilter = query)

\* the timer of the last keystroke has fired and the query filters the rows
C21_Witness ==
    /\ lastOp = "search"
    /\ pendingSearch = <<>>
    /\ debouncedGlobalFilter = <<"B", "O">>
    /\ CurrentFilteredIds = UndebouncedFilteredIds

\* the record passed to onRowSave is record rowId of the data with at most
\* the field `key` changed
SavedFrom(record, rowId, key) ==
    \A field \in RecordKeys \ {key} : record[field] = RowById(data, rowId)[field]

\* C22: every onRowSave call passes a record with the identity of the record
\* that was edited: the row editor's save passes the identity of the row
\* whose editor is mounted, an inline cell save the identity of the row of
\* the cell.
C22_SaveKeepsIdentity ==
    [][/\ (lastOp' = "save" /\ saved'.t = "call")
            => saved'.row.id = MountedEditor
       /\ (lastOp' = "cellSave" /\ saved'.t = "call")
            => \E rowId \in CurrentIds : \E key \in RecordKeys :
                  /\ SavedFrom(saved'.row, rowId, key)
                  /\ saved'.row.id = rowId]_vars

\* the step is what the claim says of toggleColumn(key): nothing changes when
\* key is the only visible column, otherwise the visibility of key flips and
\* that of every other column stays
TogglesOnly(key) ==
    IF VisibleColumnKeys = {key}
    THEN columnVisibility' = columnVisibility
    ELSE /\ IsVisible(columnVisibility', key) # IsVisible(columnVisibility, key)
         /\ \A other \in Range(availableColumns) \ {key} :
               IsVisible(columnVisibility', other)
                   = IsVisible(columnVisibility, other)

\* C23: a toggleColumn call on the only visible column changes nothing; any
\* other call flips the visibility of its column alone; the column order is
\* never changed by it.
C23_ToggleFlipsOneColumn ==
    [][lastOp' = "toggleColumn" =>
          /\ columnOrderState' = columnOrderState
          /\ \E key \in Range(availableColumns) : TogglesOnly(key)]_vars

\* position of key in order, 0 when it is not there
IndexOf(order, key) ==
    IF key \in Range(order)
    THEN CHOOSE n \in 1..Len(order) : order[n] = key
    ELSE 0

\* the step is what the claim says of moveColumn(key, direction)
MovesOnly(key, direction) ==
    LET from == IndexOf(columnOrder, key)
        to == IF direction = "up" THEN from - 1 ELSE from + 1
    IN  IF from = 0 \/ to < 1 \/ to > Len(columnOrder)
        THEN columnOrderState' = columnOrderState
        ELSE /\ Len(columnOrderState') = Len(columnOrder)
             /\ columnOrderState'[to] = key
             /\ columnOrderState'[from] = columnOrder[to]
             /\ \A n \in 1..Len(columnOrder) \ {from, to} :
                   columnOrderState'[n] = columnOrder[n]

\* C24: moveColumn(key, direction) exchanges key with its neighbour in that
\* direction and keeps every other position; on the first column moved up,
\* the last moved down and a key that is not in the order it changes
\* nothing; the visibility is never changed by it.
C24_MoveSwapsWithNeighbour ==
    /\ [](\A key \in Range(ShapeKeys) : \A direction \in {"up", "down"} :
            LET from == IndexOf(columnOrder, key)
                to == IF direction = "up" THEN from - 1 ELSE from + 1
                call == moveColumnCall(columnOrder, key, direction)
            IN  IF from = 0 \/ to < 1 \/ to > Len(columnOrder)
                THEN call = NoCall
                ELSE /\ call.t = "call"
                     /\ Len(call.value) = Len(columnOrder)
                     /\ call.value[to] = key
                     /\ call.value[from] = columnOrder[to]
                     /\ \A n \in 1..Len(columnOrder) \ {from, to} :
                           call.value[n] = columnOrder[n])
    /\ [][lastOp' = "moveColumn" =>
            /\ columnVisibility' = columnVisibility
            /\ \E key \in Range(ShapeKeys) : \E direction \in {"up", "down"} :
                  MovesOnly(key, direction)]_vars

\* a column has been moved one place: "active" now stands before "name"
C24_Witness ==
    /\ lastOp = "moveColumn"
    /\ columnOrder = <<"active", "name", "role", "skills">>

\* null, undefined or the empty string
EmptyLike(value) == IsNullish(value) \/ IsEmptyStr(value)

\* the old and the new value of the name field in the mounted editor
OldName == RowById(data, MountedEditor)["name"]
NewName == editedRow[MountedEditor]["name"]

\* C25: when the old or the new value is null, undefined or the empty
\* string, hasValueChanged is true exactly when one of the two is and the
\* other is not, and gives the same with the arguments swapped; Save calls
\* onRowSave in exactly that case.
C25_EmptyChangedIffOneSideEmpty ==
    /\ [](MountedEditor # 0 /\ (EmptyLike(OldName) \/ EmptyLike(NewName)) =>
            /\ hasValueChanged(OldName, NewName)
                  = (EmptyLike(OldName) # EmptyLike(NewName))
            /\ hasValueChanged(NewName, OldName)
                  = hasValueChanged(OldName, NewName))
    /\ [][(/\ lastOp' = "save"
           /\ (EmptyLike(OldName) \/ EmptyLike(NewName))) =>
            (saved'.t = "call") = (EmptyLike(OldName) # EmptyLike(NewName))]_vars

\* a name was cleared in the editor and the save went through
C25_Witness ==
    /\ lastOp = "save"
    /\ saved.t = "call"
    /\ IsEmptyStr(saved.row["name"])

\* what the claim says hasValueChanged gives for two values that are neither
\* null, undefined nor the empty string, nor arrays or Date objects
ChangedAsClaimed(a, b) ==
    IF /\ a.t = "string" /\ b.t = "string"
       /\ DateParse(a.s) # NaN /\ DateParse(b.s) # NaN
    THEN DateParse(a.s) # DateParse(b.s)
    ELSE a # b

Primitive(value) == value.t \in {"string", "number", "boolean"}

\* C26: two non-empty strings that both parse as dates are changed exactly
\* when their timestamps differ; two other non-empty strings, and other
\* values that are not arrays or Date objects, exactly when they are not
\* strictly equal; Save calls onRowSave in exactly those cases.
C26_StringsComparedAsDates ==
    /\ []((/\ MountedEditor # 0
           /\ Primitive(OldName) /\ Primitive(NewName)
           /\ ~EmptyLike(OldName) /\ ~EmptyLike(NewName)) =>
            hasValueChanged(OldName, NewName)
                = ChangedAsClaimed(OldName, NewName))
    /\ [][(/\ lastOp' = "save"
           /\ Primitive(OldName) /\ Primitive(NewName)
           /\ ~EmptyLike(OldName) /\ ~EmptyLike(NewName)) =>
            (saved'.t = "call") = ChangedAsClaimed(OldName, NewName)]_vars

\* Save on a draft whose date string is another spelling of the same instant:
\* onRowSave is not called
C26_Witness ==
    /\ lastOp = "save"
    /\ saved = NoCall
    /\ MountedEditor # 0
    /\ OldName = Str(IsoDay1)
    /\ NewName = Str(IsoDay1Z)

\* the record passes the filter of column key
PassesFilterOf(row, key) ==
    FilterActive(columnFilters[key])
        => columnFilterFn(row, key, columnFilters[key])

\* what the claim says of the filter value of column key: no constraint for
\* an absent value and for "all", otherwise the comparison of the column's
\* type
PassesAsClaimed(row, key) ==
    LET value == columnFilters[key]
        type == shape[key].type
    IN  IF value = Undef \/ value = Str(FilterAll) THEN TRUE
        ELSE CASE type = "boolean" -> String(row[key]) = value.s
               [] type = "select" -> row[key] = value
               [] type = "multi-select" -> Intersects(row[key], value)
               [] OTHER -> includes(toLowerCase(String(row[key])),
                                    toLowerCase(value.s))

\* C27: for every column and record, the record passes the column's filter
\* as the claim says (always for an absent value and for "all", by the
\* comparison of the column's type otherwise), and the filtered rows are the
\* records that pass the filter of every column; with "true" as the filter of
\* a boolean column the rows kept by it are those whose value reads "true".
C27_FilterValueConstrainsByType ==
    \A i \in 1..Len(data) :
        /\ \A key \in Range(DataColumns(columnOrder)) :
              PassesFilterOf(data[i], key) <=> PassesAsClaimed(data[i], key)
        /\ data[i].id \in CurrentFilteredIds
              <=> \A key \in Range(DataColumns(columnOrder)) :
                     PassesAsClaimed(data[i], key)

\* "all" typed as the filter of the name column constrains nothing, "true"
\* as the filter of the boolean column keeps the records that read "true"
C27_Witness ==
    /\ lastOp = "filter"
    /\ columnFilters["name"] = Str(FilterAll)
    /\ columnFilters["active"] = Str(FilterTrue)
    /\ columnFilters["role"] = Undef
    /\ columnFilters["skills"] = Undef
    /\ CurrentFilteredIds = {data[i].id : i \in {n \in 1..Len(data) :
                                  String(data[n]["active"]) = FilterTrue}}
    /\ CurrentFilteredIds # {}
    /\ CurrentFilteredIds # {data[i].id : i \in 1..Len(data)}

\* C28: with pagination enabled every selected identity is a row of the page
\* displayed; a page change, a page size change and a sort change remove from
\* the selection the rows they move off the page and add none.
C28_SelectionWithinDisplayedPage ==
    /\ [](paginationEnabled => rowSelection \subseteq CurrentIds)
    /\ [][(paginationEnabled /\ lastOp' \in {"page", "pageSize", "sort"}) =>
            /\ pruned' \subseteq rowSelection
            /\ rowSelection' = rowSelection \ pruned']_vars

\* a smaller page size moved a selected row off the page and kept another
C28_Witness ==
    /\ paginationEnabled
    /\ lastOp = "pageSize"
    /\ pruned # {}
    /\ rowSelection # {}
    /\ pruned \cap CurrentIds = {}

\* the step is what the claim says of an inline save on the cell of column
\* key of row rowId: onRowSave is called only for a changed value, with the
\* row changed in that field alone, and no other record of the data changes
CellSavesOnly(rowId, key) ==
    IF saved'.t = "call"
    THEN /\ hasValueChanged(CellValue(RowById(data, rowId), key),
                            Field(saved'.row, key))
         /\ SavedFrom(saved'.row, rowId, key)
         /\ \A i \in 1..Len(data) : data[i].id # rowId => data'[i] = data[i]
    ELSE data' = data

\* C29: an inline cell save on column k of a row calls onRowSave only when
\* hasValueChanged(old, new) is true, with a record equal to the row in every
\* field other than k, and no other row of the data is passed or altered.
C29_CellSaveTouchesOneField ==
    [][lastOp' = "cellSave" =>
          \E rowId \in CurrentIds : \E key \in RecordKeys :
             CellSavesOnly(rowId, key)]_vars

\* C30: the effect that writes the merged column order back reaches a
\* fixpoint: it writes only when the stored order differs from the merged
\* one, what it writes is the merged order, and after the write the stored
\* order is its own merge with the shape, so that the effect does not write
\* again until the order or the shape changes.
C30_OrderSyncReachesFixpoint ==
    /\ [][lastOp' = "sync" =>
            /\ columnOrderState # columnOrder
            /\ columnOrderState' = columnOrder
            /\ mergeColumnOrder(columnOrderState', shapeFieldKeys')
                  = columnOrderState']_vars
    /\ [](lastOp \in {"sync", "shape"} => Synced)
    /\ [][lastOp = "sync" => lastOp' # "sync"]_vars

\* the effect has written an order that drops a key no longer in the shape
\* and appends a key of the shape
C30_Witness ==
    /\ lastOp = "sync"
    /\ Synced
    /\ "removed" \notin Range(columnOrderState)
    /\ Len(columnOrderState) >= 2

====
